---- MODULE Spec2Model ----
(***************************************************************************)
(* Model of the umrahops audit ledger (server/storage.ts, SQLiteStorage)   *)
(* and of the risk-assessment client (server/services/aiService.ts).       *)
(*                                                                         *)
(* The ledger is the audit_logs table in rowid (insertion) order.  Each    *)
(* async storage method is split at its await points, so that concurrent   *)
(* callers interleave exactly where the event loop lets them.              *)
(***************************************************************************)
EXTENDS Integers, Sequences, FiniteSets, TLC

VARIABLES
    now,          \* wall clock, milliseconds since the epoch (Date.now())
    auditLogs,    \* rows of table audit_logs, in rowid (insertion) order
    nextId,       \* source of fresh primary keys (crypto.randomUUID())
    pc,           \* per caller: position inside the storage method it runs
    loc,          \* per caller: locals of the storage method it runs
    ret,          \* per caller: what its last completed createAuditLog returned
    verified,     \* the last response of verifyAuditChain
    overlap,      \* history: some createAuditLog started while another was in flight
    tampered,     \* history: the direct edit made to the table behind the API, if any
    groups,       \* rows of table groups
    travelers,    \* rows of table travelers
    jobsQueue,    \* rows of table jobs_queue
    apiKey,       \* AIService.apiKey: TRUE iff OPENAI_API_KEY was set at construction
    cache,        \* AIService.cache: fingerprint -> CachedResult
    disk,         \* content of ai/cache/risk_cache.json
    aiPc,         \* per caller: position inside assessRisk / assessBatch
    aiLoc,        \* per caller: locals of the call it runs
    aiRet,        \* per caller: what its last completed call returned
    scan,         \* the POST /api/groups/:groupId/risk-scan handler: position and locals
    trace         \* history: the oracle's answers to the chunk last sent to it

ledgerVars == <<auditLogs, nextId, pc, loc, ret, verified, overlap, tampered>>
tableVars == <<groups, travelers, jobsQueue>>
aiVars == <<apiKey, cache, disk, aiPc, aiLoc, aiRet>>

\* what the ledger operations leave alone
nonLedgerVars == <<tableVars, aiVars, scan, trace>>

(***************************************************************************)
(* Bounds of the model.                                                    *)
(***************************************************************************)
MaxLogs == 3          \* rows the ledger may hold
MaxNow == 1000        \* last clock value explored, in ms
MaxTravelers == 2     \* rows the travelers table may hold

GroupIds == {1}       \* primary keys the groups table may hold
JobIds == {1}         \* primary keys the jobs_queue table may hold

Procs == {"c1", "c2"} \* concurrent callers of the storage layer

(***************************************************************************)
(* Clock.  created_at is an integer column in mode "timestamp": drizzle    *)
(* stores floor(ms / 1000), whole seconds.                                 *)
(***************************************************************************)
MsPerSecond == 1000
SubSecondStep == 500  \* a clock advance that may stay inside one second

ToSeconds(ms) == ms \div MsPerSecond

Tick(steps, max) ==
    \E d \in steps :
        /\ now + d <= max
        /\ now' = now + d

(***************************************************************************)
(* Hashing.  SHA-256 is modelled as an injective constructor: the digest   *)
(* of x is the pair <<"sha256", x>>.  The genesis sentinel is a value of   *)
(* the same column, so it is a tuple too.                                  *)
(***************************************************************************)
GENESIS == <<"GENESIS">>
Sha256(x) == <<"sha256", x>>

NoDate == -1          \* insertLog.createdAt absent

\* a row of audit_logs has the columns of the table (shared/schema.ts); there is
\* no payload_hash column, so the payloadHash key of the inserted object is dropped
AuditRow(id, log, prevHash, hash, createdAtMs) ==
    [id |-> id, entityType |-> log.entityType, entityId |-> log.entityId,
     action |-> log.action, payload |-> log.payload,
     prevHash |-> prevHash, hash |-> hash,
     createdAt |-> ToSeconds(createdAtMs)]

\* getLatestAuditLog returned null
NoRow == [id |-> 0, entityType |-> "", entityId |-> "", action |-> "", payload |-> "",
          prevHash |-> <<>>, hash |-> <<>>, createdAt |-> 0]

(***************************************************************************)
(* What callers pass to createAuditLog.  Every call site of the            *)
(* repository passes createdAt: new Date(); the method also accepts a log  *)
(* without createdAt.                                                      *)
(***************************************************************************)
InsertLogs(createdAts) ==
    [entityType : {"group"}, entityId : {"g1"},
     action : {"create"},
     payload : {"payloadA"},
     createdAt : createdAts]

NoLog == [entityType |-> "", entityId |-> "", action |-> "", payload |-> "",
          createdAt |-> NoDate]

InitLoc == [insertLog |-> NoLog, prevLog |-> NoRow, tailLen |-> 0,
            prevHash |-> <<>>, payloadHash |-> <<>>, hash |-> <<>>, createdAt |-> 0]

\* interleaved is history: a row was inserted between this call's tail read and
\* its own insert
NoRet == [status |-> "none", id |-> 0, interleaved |-> FALSE]

NoVerify == [status |-> "none", valid |-> FALSE, brokenAt |-> 0]

(***************************************************************************)
(* ORDER BY created_at.  SQL leaves the relative order of rows with equal  *)
(* keys unspecified, so a query may return any order that is sorted on     *)
(* the key.                                                                *)
(***************************************************************************)
Max(S) == CHOOSE x \in S : \A y \in S : y <= x

\* getLatestAuditLog: ORDER BY created_at DESC LIMIT 1 -- the rows that may come first
LatestCandidates(rows) ==
    IF Len(rows) = 0 THEN {NoRow}
    ELSE LET m == Max({rows[i].createdAt : i \in 1..Len(rows)})
         IN  {rows[i] : i \in {j \in 1..Len(rows) : rows[j].createdAt = m}}

\* permutations of 1..n, as sequences
Perms(n) ==
    {f \in [1..n -> 1..n] : \A i, j \in 1..n : i # j => f[i] # f[j]}

PermsOf == [n \in 0..(MaxLogs + 1) |-> Perms(n)]

\* verifyAuditChain: ORDER BY created_at (ascending) -- the orders the query may return
AscOrders(rows) ==
    {[i \in 1..Len(rows) |-> rows[f[i]]] :
        f \in {g \in PermsOf[Len(rows)] :
                 \A i, j \in 1..Len(rows) :
                    i < j => rows[g[i]].createdAt <= rows[g[j]].createdAt}}

(***************************************************************************)
(* SQLiteStorage.createAuditLog, split at its awaits:                      *)
(*   call  -> await getLatestAuditLog() -> compute -> await insert         *)
(***************************************************************************)
CalPcs == {"cal_read", "cal_compute", "cal_insert"}

\* rows that calls in flight may still insert
InFlight == Cardinality({q \in Procs : pc[q] \in CalPcs})

\* createAuditLog(insertLog) is entered and runs to its first await
CreateAuditLogCall(p, log) ==
    /\ pc[p] = "idle"
    /\ Len(auditLogs) + InFlight < MaxLogs
    /\ loc' = [loc EXCEPT ![p] = [InitLoc EXCEPT !.insertLog = log]]
    /\ pc' = [pc EXCEPT ![p] = "cal_read"]
    /\ overlap' = (overlap \/ (\E q \in Procs \ {p} : pc[q] \in CalPcs))
    /\ ret' = [ret EXCEPT ![p] = NoRet]
    /\ UNCHANGED <<now, auditLogs, nextId, verified, tampered>>

\* the call: the argument object is built by the caller (createdAt: new Date())
CreateAuditLogBegin(p, createdAts) ==
    /\ \E log \in InsertLogs(createdAts) : CreateAuditLogCall(p, log)
    /\ UNCHANGED nonLedgerVars

\* const prevLog = await this.getLatestAuditLog();
GetLatestAuditLog(p) ==
    /\ pc[p] = "cal_read"
    /\ \E latest \in LatestCandidates(auditLogs) :
          loc' = [loc EXCEPT ![p].prevLog = latest, ![p].tailLen = Len(auditLogs)]
    /\ pc' = [pc EXCEPT ![p] = "cal_compute"]
    /\ UNCHANGED <<now, auditLogs, nextId, ret, verified, overlap, tampered>>
    /\ UNCHANGED nonLedgerVars

\* prevLog?.hash || 'GENESIS'
PrevHashOf(prevLog) ==
    IF prevLog = NoRow \/ prevLog.hash = <<>> THEN GENESIS ELSE prevLog.hash

\* JSON.stringify(payload) hashed
PayloadHash(payload) == Sha256(payload)

\* SHA-256 of `${prevHash}:${payloadHash}:${timestamp}`
ChainHash(prevHash, payloadHash, timestamp) ==
    Sha256(<<prevHash, payloadHash, timestamp>>)

\* insertLog.createdAt || new Date()
CreatedAtOf(insertLog, clock) ==
    IF insertLog.createdAt = NoDate THEN clock ELSE insertLog.createdAt

\* lines 147-164: everything between the two awaits
ComputeChain(p) ==
    /\ pc[p] = "cal_compute"
    /\ LET prevHash == PrevHashOf(loc[p].prevLog)
           payloadHash == PayloadHash(loc[p].insertLog.payload)
           timestamp == now
       IN  loc' = [loc EXCEPT ![p].prevHash = prevHash,
                              ![p].payloadHash = payloadHash,
                              ![p].hash = ChainHash(prevHash, payloadHash, timestamp),
                              ![p].createdAt = CreatedAtOf(loc[p].insertLog, now)]
    /\ pc' = [pc EXCEPT ![p] = "cal_insert"]
    /\ UNCHANGED <<now, auditLogs, nextId, ret, verified, overlap, tampered>>
    /\ UNCHANGED nonLedgerVars

\* an insert that replaces the newest row instead of adding one
InsertRowReplacingTail(rows, row) ==
    IF Len(rows) = 0 THEN <<row>> ELSE [rows EXCEPT ![Len(rows)] = row]

\* db.insert(auditLogs).values(row): the table gains one row
InsertRow(rows, row) == Append(rows, row)

\* const [log] = await db.insert(auditLogs).values(logWithChain).returning(); return log;
InsertAuditLog(p) ==
    /\ pc[p] = "cal_insert"
    /\ LET row == AuditRow(nextId, loc[p].insertLog, loc[p].prevHash, loc[p].hash,
                           loc[p].createdAt)
       IN  /\ auditLogs' = InsertRow(auditLogs, row)
           /\ ret' = [ret EXCEPT ![p] =
                        [status |-> "ok", id |-> row.id,
                         interleaved |-> (Len(auditLogs) > loc[p].tailLen)]]
    /\ nextId' = nextId + 1
    /\ pc' = [pc EXCEPT ![p] = "idle"]
    /\ loc' = [loc EXCEPT ![p] = InitLoc]
    /\ UNCHANGED <<now, verified, overlap, tampered>>
    /\ UNCHANGED nonLedgerVars

(***************************************************************************)
(* SQLiteStorage.verifyAuditChain: one select, then the walk.              *)
(***************************************************************************)
RECURSIVE Walk(_, _, _)
Walk(logs, i, expectedPrevHash) ==
    IF i > Len(logs) THEN [valid |-> TRUE, brokenAt |-> 0]
    ELSE IF logs[i].prevHash # expectedPrevHash
         THEN [valid |-> FALSE, brokenAt |-> logs[i].id]
         ELSE Walk(logs, i + 1, logs[i].hash)

VerifyWalk(logs) == Walk(logs, 1, GENESIS)

VerifyAuditChain ==
    /\ \E r \in {VerifyWalk(logs) : logs \in AscOrders(auditLogs)} :
          verified' = [status |-> "ok", valid |-> r.valid, brokenAt |-> r.brokenAt]
    /\ UNCHANGED <<now, auditLogs, nextId, pc, loc, ret, overlap, tampered>>
    /\ UNCHANGED nonLedgerVars

(***************************************************************************)
(* AIService (server/services/aiService.ts): data.                         *)
(***************************************************************************)
maxBatchSize == 2     \* OPENAI_MAX_BATCH_SIZE (default '50'), set small
DefaultRetries == 3   \* callOpenAI(featuresList, retries = 3)
cacheTTL == 24 * 60 * 60 * 1000

AiCallers == {"c1"}   \* callers of the AIService

\* `${decade}-${decade + 10}` as the characters of the string
Chars(n) ==
    LET d == [k \in 0..9 |-> CASE k = 0 -> "0" [] k = 1 -> "1" [] k = 2 -> "2"
                               [] k = 3 -> "3" [] k = 4 -> "4" [] k = 5 -> "5"
                               [] k = 6 -> "6" [] k = 7 -> "7" [] k = 8 -> "8"
                               [] k = 9 -> "9"]
    IN  IF n < 10 THEN <<d[n]>>
        ELSE IF n < 100 THEN <<d[n \div 10], d[n % 10]>>
        ELSE <<d[n \div 100], d[(n \div 10) % 10], d[n % 10]>>

AgeRangeString(decade) == Chars(decade) \o <<"-">> \o Chars(decade + 10)

NoLevel == "undefined"   \* nationalityRiskLevel absent

\* the TravelerFeatures the model feeds to the service; t3 has the features of t1
FeaturePool ==
    { [id |-> "t1", passportHash |-> Sha256("A12345678"), ageRange |-> AgeRangeString(30),
       missingFieldsCount |-> 0, nationalityRiskLevel |-> NoLevel],
      [id |-> "t2", passportHash |-> Sha256("B87654321"), ageRange |-> AgeRangeString(70),
       missingFieldsCount |-> 1, nationalityRiskLevel |-> "high"],
      [id |-> "t3", passportHash |-> Sha256("A12345678"), ageRange |-> AgeRangeString(30),
       missingFieldsCount |-> 0, nationalityRiskLevel |-> NoLevel] }

\* lists of distinct records of the pool, the empty list included
FeatureLists ==
    UNION {{l \in [1..n -> FeaturePool] : \A i, j \in 1..n : i # j => l[i] # l[j]} :
             n \in 0..Cardinality(FeaturePool)}

Assessment(id, score, reason) ==
    [travelerId |-> id, riskScore |-> score, riskReason |-> reason]

(***************************************************************************)
(* mockAssessment                                                          *)
(***************************************************************************)
\* String.prototype.includes on character sequences
Includes(str, sub) ==
    \E k \in 0..(Len(str) - Len(sub)) :
        \A j \in 1..Len(sub) : str[k + j] = sub[j]

RECURSIVE Join(_, _)
Join(parts, sep) ==
    IF Len(parts) = 0 THEN ""
    ELSE IF Len(parts) = 1 THEN parts[1]
    ELSE parts[1] \o sep \o Join(Tail(parts), sep)

Min(a, b) == IF a < b THEN a ELSE b

mockAssessment(features) ==
    LET senior == Includes(features.ageRange, <<"7", "0">>)
                    \/ Includes(features.ageRange, <<"8", "0">>)
        many == features.missingFieldsCount > 3
        some == ~many /\ features.missingFieldsCount > 0
        high == features.nationalityRiskLevel = "high"
        score == 10 + (IF senior THEN 30 ELSE 0)
                    + (IF many THEN 40 ELSE IF some THEN 15 ELSE 0)
                    + (IF high THEN 25 ELSE 0)
        reasons == (IF senior THEN <<"Senior age group">> ELSE <<>>)
                   \o (IF many \/ some
                       THEN <<ToString(features.missingFieldsCount) \o " missing fields">>
                       ELSE <<>>)
                   \o (IF high THEN <<"High-risk nationality profile">> ELSE <<>>)
        riskReason == IF Len(reasons) > 0 THEN "Mock: " \o Join(reasons, ", ")
                      ELSE "Mock: Low risk profile"
    IN  Assessment(features.id, Min(score, 100), riskReason)

MockAll(featuresList) ==
    [i \in 1..Len(featuresList) |-> mockAssessment(featuresList[i])]

(***************************************************************************)
(* The cache.                                                              *)
(***************************************************************************)
\* the hex digits of a digest in a template string: no ':' among them, so they
\* are written as one symbol
HashText(h) == <<h[1] \o "(" \o h[2] \o ")">>

\* `${level || ''}` as characters, for the levels of the model; undefined and ''
\* both give the empty string
LevelText(level) ==
    CASE level = NoLevel -> <<>>
      [] level = "" -> <<>>
      [] level = "high" -> <<"h", "i", "g", "h">>
      [] level = "low" -> <<"l", "o", "w">>
      [] level = "2:" -> <<"2", ":">>

\* `${passportHash}:${ageRange}:${missingFieldsCount}:${level || ''}`
FingerprintText(features) ==
    HashText(features.passportHash) \o <<":">> \o features.ageRange \o <<":">>
        \o Chars(features.missingFieldsCount) \o <<":">>
        \o LevelText(features.nationalityRiskLevel)

\* a fingerprint that leaves out the number of missing fields
generateFingerprintWithoutCount(features) ==
    Sha256(HashText(features.passportHash) \o <<":">> \o features.ageRange \o <<":">>
               \o LevelText(features.nationalityRiskLevel))

\* sha256 of the template string
generateFingerprint(features) == Sha256(FingerprintText(features))

CachedResult(score, reason, timestamp) ==
    [riskScore |-> score, riskReason |-> reason, timestamp |-> timestamp]

NoEntry == [riskScore |-> -1, riskReason |-> "", timestamp |-> -1]

EmptyCache == [fp \in {} |-> NoEntry]

\* a set that replaces the map by the one entry
CacheSetAlone(c, fp, entry) == [k \in {fp} |-> entry]

\* Map.set
CacheSet(c, fp, entry) ==
    [k \in (DOMAIN c) \cup {fp} |-> IF k = fp THEN entry ELSE c[k]]

\* a lookup that still serves an entry of exactly the TTL's age
getFromCacheInclusive(c, clock, fp) ==
    IF fp \in DOMAIN c /\ (clock - c[fp].timestamp) <= cacheTTL THEN c[fp] ELSE NoEntry

\* getFromCache: the entry if present and younger than the TTL, else null
getFromCache(c, clock, fp) ==
    IF fp \in DOMAIN c /\ (clock - c[fp].timestamp) < cacheTTL THEN c[fp] ELSE NoEntry

\* saveCache: writeFileSync of the whole map; a failing write is logged and dropped
saveCache(c, file, writeOk) == IF writeOk THEN c ELSE file

\* loadCache: the map is replaced by the content of the file
loadCache(file) == file

\* cache files a process may find at start: none, or one written by an earlier run
InitialDisks ==
    { EmptyCache,
      CacheSet(EmptyCache, generateFingerprint(CHOOSE f \in FeaturePool : f.id = "t1"),
               CachedResult(55, "cached reason", 0)) }

(***************************************************************************)
(* The scoring oracle, as callOpenAI sees one fetch end.                   *)
(***************************************************************************)
\* an element of the parsed array; a field that is absent, null, 0 or '' is
\* falsy and is written 0 / ""
MissingElem == [riskScore |-> 0, riskReason |-> ""]

OracleElems ==
    { MissingElem,
      [riskScore |-> 55, riskReason |-> "oracle reason"],
      [riskScore |-> 150, riskReason |-> "oracle reason"] }

\* message.content for a request of n records: text that JSON.parse rejects (or
\* parses to null), or an array; elements beyond the n-th are never read
OracleContents(n) ==
    {[kind |-> "unparseable", elems |-> <<>>]}
    \cup {[kind |-> "array", elems |-> e] :
            e \in UNION {[1..k -> OracleElems] : k \in 0..n}}

\* HTTP 429; fetch rejecting with ECONNRESET / ETIMEDOUT; any other failure
\* (status not ok, body that is no JSON, no choices[0].message); a completion
OracleResponses(n) ==
    {[kind |-> k, elems |-> <<>>] : k \in {"429", "network", "failure"}}
    \cup OracleContents(n)

\* parseOpenAIResponse
parseOpenAIResponse(content, featuresList) ==
    IF content.kind = "unparseable" THEN MockAll(featuresList)
    ELSE [i \in 1..Len(featuresList) |->
            LET elem == IF i <= Len(content.elems) THEN content.elems[i]
                        ELSE MissingElem
            IN  Assessment(featuresList[i].id,
                           elem.riskScore,
                           IF elem.riskReason = "" THEN "Unknown"
                           ELSE elem.riskReason)]

\* a retry guard that still retries when no retry is left
callOpenAIRetryAtZero(featuresList, retries, response) ==
    CASE response.kind = "429" ->
            IF retries >= 0 THEN [kind |-> "retry", value |-> <<>>]
            ELSE [kind |-> "throw", value |-> <<>>]
      [] response.kind = "network" ->
            IF retries >= 0 THEN [kind |-> "retry", value |-> <<>>]
            ELSE [kind |-> "throw", value |-> <<>>]
      [] response.kind = "failure" -> [kind |-> "throw", value |-> <<>>]
      [] OTHER ->
            [kind |-> "return", value |-> parseOpenAIResponse(response, featuresList)]

\* a recursive call whose result is not returned: the caller reads result[0] of
\* undefined, which throws
callOpenAIDroppingRetryResult(featuresList, retries, response) ==
    CASE response.kind = "429" ->
            IF retries > 0 THEN [kind |-> "retry", value |-> <<>>]
            ELSE [kind |-> "throw", value |-> <<>>]
      [] response.kind = "network" ->
            IF retries > 0 THEN [kind |-> "retry", value |-> <<>>]
            ELSE [kind |-> "throw", value |-> <<>>]
      [] response.kind = "failure" -> [kind |-> "throw", value |-> <<>>]
      [] OTHER ->
            IF retries < DefaultRetries THEN [kind |-> "throw", value |-> <<>>]
            ELSE [kind |-> "return",
                  value |-> parseOpenAIResponse(response, featuresList)]

\* a retry that does not look at the retries left
callOpenAIRetryForever(featuresList, retries, response) ==
    CASE response.kind \in {"429", "network"} -> [kind |-> "retry", value |-> <<>>]
      [] response.kind = "failure" -> [kind |-> "throw", value |-> <<>>]
      [] OTHER ->
            [kind |-> "return", value |-> parseOpenAIResponse(response, featuresList)]

\* a catch that retries after every error, not only after network errors
callOpenAIRetryOnFailure(featuresList, retries, response) ==
    CASE response.kind \in {"429", "network", "failure"} ->
            IF retries > 0 THEN [kind |-> "retry", value |-> <<>>]
            ELSE [kind |-> "throw", value |-> <<>>]
      [] OTHER ->
            [kind |-> "return", value |-> parseOpenAIResponse(response, featuresList)]

\* callOpenAI, one attempt: retry (sleep, then the recursive call), throw, or return
callOpenAI(featuresList, retries, response) ==
    CASE response.kind = "429" ->
            IF retries > 0 THEN [kind |-> "retry", value |-> <<>>]
            ELSE [kind |-> "throw", value |-> <<>>]
      [] response.kind = "network" ->
            IF retries > 0 THEN [kind |-> "retry", value |-> <<>>]
            ELSE [kind |-> "throw", value |-> <<>>]
      [] response.kind = "failure" -> [kind |-> "throw", value |-> <<>>]
      [] OTHER ->
            [kind |-> "return", value |-> parseOpenAIResponse(response, featuresList)]

(***************************************************************************)
(* assessBatch: chunks, partition by cache, resolve, merge.                *)
(***************************************************************************)
\* featuresList.slice(i, i + maxBatchSize) for i = 0, maxBatchSize, ...
Chunks(list, size) ==
    [k \in 1..((Len(list) + size - 1) \div size) |->
        SubSeq(list, (k - 1) * size + 1, Min(k * size, Len(list)))]

\* lines 161-177: the records of a chunk that hit the cache, and those that miss
CachedResults(c, clock, batch) ==
    LET Hit(f) == getFromCache(c, clock, generateFingerprint(f)) # NoEntry
        hits == SelectSeq(batch, Hit)
    IN  [i \in 1..Len(hits) |->
            LET e == getFromCache(c, clock, generateFingerprint(hits[i]))
            IN  Assessment(hits[i].id, e.riskScore, e.riskReason)]

\* a partition that sends the whole chunk to the oracle
UncachedWholeChunk(c, clock, batch) == batch

Uncached(c, clock, batch) ==
    LET Miss(f) == getFromCache(c, clock, generateFingerprint(f)) = NoEntry
    IN  SelectSeq(batch, Miss)

\* a merge that pushes the cache hits only for a chunk without misses
MergeChunkDroppingHits(results, resolved, cachedResults) ==
    IF Len(resolved) > 0 THEN results \o resolved ELSE results \o cachedResults

\* what one chunk contributes once its misses are resolved (lines 197-205)
MergeChunk(results, resolved, cachedResults) == results \o resolved \o cachedResults

\* the for-loop over the chunks from chunk b on, up to the next await of callOpenAI
\* (done = FALSE, chunk b waits for the oracle) or to the return (done = TRUE)
RECURSIVE RunBatches(_, _, _, _, _, _)
RunBatches(c, clock, batches, b, results, hits) ==
    IF b > Len(batches)
    THEN [done |-> TRUE, b |-> b, uncached |-> <<>>, cachedResults |-> <<>>,
          results |-> results, hits |-> hits]
    ELSE LET cachedResults == CachedResults(c, clock, batches[b])
             uncached == Uncached(c, clock, batches[b])
         IN  IF Len(uncached) > 0
             THEN [done |-> FALSE, b |-> b, uncached |-> uncached,
                   cachedResults |-> cachedResults, results |-> results,
                   hits |-> hits + Len(cachedResults)]
             ELSE RunBatches(c, clock, batches, b + 1,
                             MergeChunk(results, <<>>, cachedResults),
                             hits + Len(cachedResults))

\* a loop that stores the first result only
CacheResultsFirstOnly(c, clock, uncached, batchResults, i) ==
    IF Len(uncached) = 0 THEN c
    ELSE CacheSet(c, generateFingerprint(uncached[1]),
                  CachedResult(batchResults[1].riskScore,
                               batchResults[1].riskReason, clock))

\* lines 187-194: cache.set for every record that was sent, in order
RECURSIVE CacheResults(_, _, _, _, _)
CacheResults(c, clock, uncached, batchResults, i) ==
    IF i > Len(uncached) THEN c
    ELSE CacheResults(CacheSet(c, generateFingerprint(uncached[i]),
                               CachedResult(batchResults[i].riskScore,
                                            batchResults[i].riskReason, clock)),
                      clock, uncached, batchResults, i + 1)

\* the try block without its catch: the error of callOpenAI leaves assessBatch
BatchResolveNoCatch(c, clock, uncached, attempt) ==
    IF attempt.kind = "throw"
    THEN [threw |-> TRUE, results |-> <<>>, cache |-> c,
          wrote |-> FALSE, scored |-> 0, fallbacks |-> 0]
    ELSE [threw |-> FALSE, results |-> attempt.value,
          cache |-> CacheResults(c, clock, uncached, attempt.value, 1),
          wrote |-> TRUE, scored |-> Len(uncached), fallbacks |-> 0]

\* a catch that falls back to the last score the cache has seen for the
\* features, however old, before it falls back to mockAssessment
BatchResolveStaleFallback(c, clock, uncached, attempt) ==
    IF attempt.kind = "throw"
    THEN [threw |-> FALSE,
          results |-> [i \in 1..Len(uncached) |->
                         LET fp == generateFingerprint(uncached[i])
                         IN  IF fp \in DOMAIN c
                             THEN Assessment(uncached[i].id, c[fp].riskScore,
                                             c[fp].riskReason)
                             ELSE mockAssessment(uncached[i])],
          cache |-> c,
          wrote |-> FALSE, scored |-> 0, fallbacks |-> Len(uncached)]
    ELSE [threw |-> FALSE, results |-> attempt.value,
          cache |-> CacheResults(c, clock, uncached, attempt.value, 1),
          wrote |-> TRUE, scored |-> Len(uncached), fallbacks |-> 0]

\* a try block that returns the oracle's results without storing them
BatchResolveWithoutStore(c, clock, uncached, attempt) ==
    IF attempt.kind = "throw"
    THEN [threw |-> FALSE, results |-> MockAll(uncached), cache |-> c,
          wrote |-> FALSE, scored |-> 0, fallbacks |-> Len(uncached)]
    ELSE [threw |-> FALSE, results |-> attempt.value, cache |-> c,
          wrote |-> FALSE, scored |-> Len(uncached), fallbacks |-> 0]

\* lines 183-202: the try block around callOpenAI, and its catch
BatchResolve(c, clock, uncached, attempt) ==
    IF attempt.kind = "throw"
    THEN [threw |-> FALSE, results |-> MockAll(uncached), cache |-> c,
          wrote |-> FALSE, scored |-> 0, fallbacks |-> Len(uncached)]
    ELSE [threw |-> FALSE, results |-> attempt.value,
          cache |-> CacheResults(c, clock, uncached, attempt.value, 1),
          wrote |-> TRUE, scored |-> Len(uncached), fallbacks |-> 0]

\* assessRisk, lines 123-140
RiskResolve(c, clock, features, attempt) ==
    IF attempt.kind = "throw"
    THEN [threw |-> FALSE, results |-> <<mockAssessment(features)>>, cache |-> c,
          wrote |-> FALSE, scored |-> 0, fallbacks |-> 1]
    ELSE [threw |-> FALSE, results |-> <<attempt.value[1]>>,
          cache |-> CacheSet(c, generateFingerprint(features),
                             CachedResult(attempt.value[1].riskScore,
                                          attempt.value[1].riskReason, clock)),
          wrote |-> TRUE, scored |-> 1, fallbacks |-> 0]

InitAiLoc ==
    [op |-> "none", featuresList |-> <<>>, batches |-> <<>>, b |-> 0,
     uncached |-> <<>>, cachedResults |-> <<>>, results |-> <<>>,
     retries |-> 0, fetches |-> 0, hits |-> 0, scored |-> 0, fallbacks |-> 0]

\* the outcome of a call, with history of how it came about: oracle requests
\* made, records answered from the cache, by the oracle, by the fallback
NoAiRet ==
    [status |-> "none", op |-> "none", input |-> <<>>, results |-> <<>>,
     fetches |-> 0, hits |-> 0, scored |-> 0, fallbacks |-> 0]

Returned(l) ==
    [status |-> "ok", op |-> l.op, input |-> l.featuresList, results |-> l.results,
     fetches |-> l.fetches, hits |-> l.hits, scored |-> l.scored,
     fallbacks |-> l.fallbacks]

Threw(l) == [Returned(l) EXCEPT !.status = "error", !.results = <<>>]

\* the call either returns or suspends in callOpenAI for chunk r.b
Continue(p, l, r) ==
    LET l2 == [l EXCEPT !.b = r.b, !.uncached = r.uncached,
                        !.cachedResults = r.cachedResults,
                        !.results = r.results, !.hits = r.hits]
    IN  IF r.done
        THEN /\ aiRet' = [aiRet EXCEPT ![p] = Returned(l2)]
             /\ aiPc' = [aiPc EXCEPT ![p] = "idle"]
             /\ aiLoc' = [aiLoc EXCEPT ![p] = InitAiLoc]
        ELSE /\ aiRet' = [aiRet EXCEPT ![p] = NoAiRet]
             /\ aiPc' = [aiPc EXCEPT ![p] = "oracle"]
             /\ aiLoc' = [aiLoc EXCEPT ![p] =
                            [l2 EXCEPT !.retries = DefaultRetries,
                                       !.fetches = l.fetches + 1]]

\* a mock mode that looks into the cache first, as assessRisk does
AssessBatchMockCacheFirst(c, clock, featuresList) ==
    [i \in 1..Len(featuresList) |->
        LET e == getFromCache(c, clock, generateFingerprint(featuresList[i]))
        IN  IF e # NoEntry
            THEN Assessment(featuresList[i].id, e.riskScore, e.riskReason)
            ELSE mockAssessment(featuresList[i])]

\* lines 147-150: without apiKey every record is scored by mockAssessment; the
\* cache and the clock are not consulted
AssessBatchMock(c, clock, featuresList) == MockAll(featuresList)

\* assessBatch(featuresList) up to its first await, or to its return
AssessBatchCall(p, featuresList) ==
    /\ aiPc[p] = "idle"
    /\ LET l == [InitAiLoc EXCEPT !.op = "assessBatch",
                                  !.featuresList = featuresList]
       IN  IF ~apiKey
           THEN Continue(p, [l EXCEPT !.fallbacks = Len(featuresList)],
                         [done |-> TRUE, b |-> 0, uncached |-> <<>>,
                          cachedResults |-> <<>>,
                          results |-> AssessBatchMock(cache, now, featuresList),
                          hits |-> 0])
           ELSE LET batches == Chunks(featuresList, maxBatchSize)
                IN  Continue(p, [l EXCEPT !.batches = batches],
                             RunBatches(cache, now, batches, 1, <<>>, 0))
    /\ UNCHANGED <<now, apiKey, cache, disk>>

\* a caller of the service passes some list
AssessBatchBegin(p) ==
    /\ \E featuresList \in FeatureLists : AssessBatchCall(p, featuresList)
    /\ UNCHANGED <<ledgerVars, tableVars, scan, trace>>

\* assessRisk(features) up to its await, or to its return
AssessRiskCall(p, features) ==
    /\ aiPc[p] = "idle"
    /\ LET l == [InitAiLoc EXCEPT !.op = "assessRisk",
                                  !.featuresList = <<features>>]
           cached == getFromCache(cache, now, generateFingerprint(features))
           done == [done |-> TRUE, b |-> 0, uncached |-> <<>>,
                    cachedResults |-> <<>>, results |-> <<>>, hits |-> 0]
       IN  IF cached # NoEntry
           THEN Continue(p, l,
                  [done EXCEPT !.hits = 1,
                               !.results = <<Assessment(features.id, cached.riskScore,
                                                        cached.riskReason)>>])
           ELSE IF ~apiKey
           THEN Continue(p, [l EXCEPT !.fallbacks = 1],
                  [done EXCEPT !.results = <<mockAssessment(features)>>])
           ELSE Continue(p, l, [done EXCEPT !.done = FALSE,
                                            !.uncached = <<features>>])
    /\ UNCHANGED <<now, apiKey, cache, disk>>

\* a caller of the service passes some record
AssessRiskBegin(p) ==
    /\ \E features \in FeaturePool : AssessRiskCall(p, features)
    /\ UNCHANGED <<ledgerVars, tableVars, scan, trace>>

\* a fetch of callOpenAI ends: the attempt is retried, or the await in
\* assessBatch / assessRisk resumes and the call runs to its next await or return
OracleStep(p, response, writeOk) ==
    /\ aiPc[p] = "oracle"
    /\ LET l == aiLoc[p]
           attempt == callOpenAI(l.uncached, l.retries, response)
       IN  IF attempt.kind = "retry"
           THEN /\ aiLoc' = [aiLoc EXCEPT ![p].retries = l.retries - 1,
                                          ![p].fetches = l.fetches + 1]
                /\ UNCHANGED <<cache, disk, aiPc, aiRet>>
           ELSE LET res == IF l.op = "assessBatch"
                           THEN BatchResolve(cache, now, l.uncached, attempt)
                           ELSE RiskResolve(cache, now, l.uncached[1], attempt)
                    l2 == [l EXCEPT !.scored = l.scored + res.scored,
                                    !.fallbacks = l.fallbacks + res.fallbacks]
                IN  /\ cache' = res.cache
                    /\ disk' = IF res.wrote THEN saveCache(res.cache, disk, writeOk)
                               ELSE disk
                    /\ IF res.threw
                       THEN /\ aiRet' = [aiRet EXCEPT ![p] = Threw(l2)]
                            /\ aiPc' = [aiPc EXCEPT ![p] = "idle"]
                            /\ aiLoc' = [aiLoc EXCEPT ![p] = InitAiLoc]
                       ELSE IF l.op = "assessBatch"
                       THEN Continue(p, l2,
                              RunBatches(res.cache, now, l.batches, l.b + 1,
                                         MergeChunk(l.results, res.results,
                                                    l.cachedResults),
                                         l.hits))
                       ELSE Continue(p, l2,
                              [done |-> TRUE, b |-> 0, uncached |-> <<>>,
                               cachedResults |-> <<>>, results |-> res.results,
                               hits |-> l.hits])
    /\ UNCHANGED <<now, apiKey>>

\* the oracle answers in any of the ways it can
OracleRespond(p, writeOks) ==
    /\ \E response \in OracleResponses(Len(aiLoc[p].uncached)), writeOk \in writeOks :
          OracleStep(p, response, writeOk)
    /\ UNCHANGED <<ledgerVars, tableVars, scan, trace>>

\* time passes, in steps of half the TTL
AiTick ==
    /\ Tick({cacheTTL \div 2}, cacheTTL)
    /\ UNCHANGED <<ledgerVars, nonLedgerVars>>

\* the constructor: apiKey from the environment, the cache from the file
AiServiceInit ==
    /\ apiKey \in BOOLEAN
    /\ disk \in InitialDisks
    /\ cache = loadCache(disk)
    /\ aiPc = [p \in AiCallers |-> "idle"]
    /\ aiLoc = [p \in AiCallers |-> InitAiLoc]
    /\ aiRet = [p \in AiCallers |-> NoAiRet]

\* a service without credential and without cache file, never called
AiUnusedInit ==
    /\ apiKey = FALSE
    /\ disk = EmptyCache
    /\ cache = EmptyCache
    /\ aiPc = [p \in AiCallers |-> "idle"]
    /\ aiLoc = [p \in AiCallers |-> InitAiLoc]
    /\ aiRet = [p \in AiCallers |-> NoAiRet]

(***************************************************************************)
(* Specification of the ledger under concurrent callers.                   *)
(***************************************************************************)
NoTamper == [kind |-> "none", id |-> 0, index |-> 0]

LedgerInit ==
    /\ now = 0
    /\ auditLogs = <<>>
    /\ nextId = 1
    /\ pc = [p \in Procs |-> "idle"]
    /\ loc = [p \in Procs |-> InitLoc]
    /\ ret = [p \in Procs |-> NoRet]
    /\ verified = NoVerify
    /\ overlap = FALSE
    /\ tampered = NoTamper

TablesInit ==
    /\ groups = <<>>
    /\ travelers = <<>>
    /\ jobsQueue = <<>>

\* no request to the risk-scan route yet, no oracle answer yet
NoScan == [pc |-> "idle", status |-> 0, travelers |-> <<>>, results |-> <<>>,
           k |-> 0, logsBefore |-> 0, route |-> "none", auditError |-> FALSE]

NoTrace == [attempts |-> 0, n429 |-> 0, uncached |-> <<>>,
            last |-> [kind |-> "none", elems |-> <<>>]]

RoutesInit ==
    /\ scan = NoScan
    /\ trace = NoTrace

ClockTick ==
    /\ Tick({SubSecondStep, MsPerSecond}, MaxNow)
    /\ UNCHANGED <<ledgerVars, nonLedgerVars>>

AppendCall ==
    \E p \in Procs :
        \/ CreateAuditLogBegin(p, {NoDate, now})
        \/ GetLatestAuditLog(p)
        \/ ComputeChain(p)
        \/ InsertAuditLog(p)

vars == <<now, ledgerVars, nonLedgerVars>>

Init == LedgerInit /\ TablesInit /\ RoutesInit /\ AiUnusedInit

Next == ClockTick \/ AppendCall \/ VerifyAuditChain

Spec == Init /\ [][Next]_vars

(***************************************************************************)
(* The other operations of the storage layer (IStorage): groups,           *)
(* travelers and jobs.  Each is one SQL statement.                         *)
(***************************************************************************)
Null == -1            \* SQL NULL in an integer column

InsertGroups == [name : {"Demo Umrah Group"}, status : {"draft"}]

InsertTravelers ==
    [groupId : {1}, passportNumber : {"A12345678"}, name : {"Ahmed"},
     nationality : {"SA"}, dob : {"1950-01-01"}]

TravelerUpdates == [riskScore : {55}, riskReason : {"reason"}]

TravelerRow(id, t) ==
    [id |-> id, groupId |-> t.groupId, passportNumber |-> t.passportNumber,
     name |-> t.name, nationality |-> t.nationality, dob |-> t.dob,
     riskScore |-> Null, riskReason |-> ""]

\* createGroup
CreateGroup ==
    /\ Len(groups) + 1 \in GroupIds
    /\ \E g \in InsertGroups :
          groups' = Append(groups, [id |-> Len(groups) + 1, name |-> g.name,
                                    status |-> g.status])
    /\ UNCHANGED <<now, ledgerVars, travelers, jobsQueue, aiVars, scan, trace>>

\* updateGroup(id, updates)
UpdateGroup ==
    /\ \E i \in 1..Len(groups) :
          /\ groups[i].status # "submitted"
          /\ groups' = [groups EXCEPT ![i].status = "submitted"]
    /\ UNCHANGED <<now, ledgerVars, travelers, jobsQueue, aiVars, scan, trace>>

\* createTraveler
CreateTraveler ==
    /\ Len(travelers) < MaxTravelers
    /\ \E t \in InsertTravelers :
          travelers' = Append(travelers, TravelerRow(Len(travelers) + 1, t))
    /\ UNCHANGED <<now, ledgerVars, groups, jobsQueue, aiVars, scan, trace>>

\* bulkCreateTravelers: an empty list inserts nothing
BulkCreateTravelers ==
    /\ \E n \in 0..(MaxTravelers - Len(travelers)) :
         \E t \in InsertTravelers :
            travelers' = travelers \o
                [k \in 1..n |-> TravelerRow(Len(travelers) + k, t)]
    /\ UNCHANGED <<now, ledgerVars, groups, jobsQueue, aiVars, scan, trace>>

\* UPDATE travelers SET ... WHERE id = ?
UpdateTravelerRows(rows, id, u) ==
    [k \in 1..Len(rows) |->
        IF rows[k].id = id
        THEN [rows[k] EXCEPT !.riskScore = u.riskScore, !.riskReason = u.riskReason]
        ELSE rows[k]]

\* updateTraveler(id, updates)
UpdateTraveler ==
    /\ \E id \in {travelers[k].id : k \in 1..Len(travelers)} :
         \E u \in TravelerUpdates :
            travelers' = UpdateTravelerRows(travelers, id, u)
    /\ UNCHANGED <<now, ledgerVars, groups, jobsQueue, aiVars, scan, trace>>

\* enqueueJob
EnqueueJob ==
    /\ Len(jobsQueue) + 1 \in JobIds
    /\ jobsQueue' = Append(jobsQueue, [id |-> Len(jobsQueue) + 1,
                                        type |-> "nusuk_sync", status |-> "pending"])
    /\ UNCHANGED <<now, ledgerVars, groups, travelers, aiVars, scan, trace>>

\* getAuditLogs, getLatestAuditLog, getGroups, getGroup, getTravelers, getJobs:
\* SELECT statements
ReadOnlyQuery == UNCHANGED <<now, ledgerVars, tableVars, aiVars, scan, trace>>

\* one caller at a time uses the whole storage layer
OneCallerAppend ==
    \/ CreateAuditLogBegin("c1", {NoDate, now})
    \/ GetLatestAuditLog("c1")
    \/ ComputeChain("c1")
    \/ InsertAuditLog("c1")

\* the clock passes from one second to the next
SecondTick ==
    /\ Tick({MsPerSecond}, MaxNow)
    /\ UNCHANGED <<ledgerVars, nonLedgerVars>>

StorageNext ==
    \/ SecondTick
    \/ OneCallerAppend
    \/ VerifyAuditChain
    \/ ReadOnlyQuery
    \/ CreateGroup
    \/ UpdateGroup
    \/ CreateTraveler
    \/ BulkCreateTravelers
    \/ UpdateTraveler
    \/ EnqueueJob

SpecStorage == Init /\ [][StorageNext]_vars

(***************************************************************************)
(* The ledger under a direct edit of the table.  The storage layer has no  *)
(* such operation; the edit stands for an operator with database access.   *)
(* The ledger is first built by one caller, one append after the other;    *)
(* after the edit only verifyAuditChain runs.                              *)
(***************************************************************************)
ForgedHashes == {<<"forged">>, GENESIS}

Quiescent == \A p \in Procs : pc[p] = "idle"

\* the hash of the row appended just before row i, or the sentinel
CorrectPrevHash(rows, i) == IF i = 1 THEN GENESIS ELSE rows[i - 1].hash

RemoveAt(rows, i) ==
    [k \in 1..(Len(rows) - 1) |-> IF k < i THEN rows[k] ELSE rows[k + 1]]

TamperPrevHash ==
    /\ tampered.kind = "none"
    /\ Quiescent
    /\ \E i \in 1..Len(auditLogs) :
         \E v \in ForgedHashes \cup {auditLogs[k].hash : k \in 1..Len(auditLogs)} :
            /\ v # CorrectPrevHash(auditLogs, i)
            /\ v # auditLogs[i].prevHash
            /\ auditLogs' = [auditLogs EXCEPT ![i].prevHash = v]
            /\ tampered' = [kind |-> "prevHash", id |-> auditLogs[i].id, index |-> i]
    /\ verified' = NoVerify
    /\ UNCHANGED <<now, nextId, pc, loc, ret, overlap>>
    /\ UNCHANGED nonLedgerVars

DeleteRow ==
    /\ tampered.kind = "none"
    /\ Quiescent
    /\ \E i \in 1..Len(auditLogs) :
          /\ auditLogs' = RemoveAt(auditLogs, i)
          /\ tampered' = [kind |-> "delete", id |-> auditLogs[i].id, index |-> i]
    /\ verified' = NoVerify
    /\ UNCHANGED <<now, nextId, pc, loc, ret, overlap>>
    /\ UNCHANGED nonLedgerVars

SequentialAppend ==
    /\ tampered.kind = "none"
    /\ \/ CreateAuditLogBegin("c1", {NoDate, now})
       \/ GetLatestAuditLog("c1")
       \/ ComputeChain("c1")
       \/ InsertAuditLog("c1")

TamperNext ==
    \/ ClockTick
    \/ SequentialAppend
    \/ TamperPrevHash
    \/ DeleteRow
    \/ VerifyAuditChain

SpecTamper == Init /\ [][TamperNext]_vars

(***************************************************************************)
(* Specification of the AIService under one caller and every oracle.       *)
(***************************************************************************)
AiInit == LedgerInit /\ TablesInit /\ RoutesInit /\ AiServiceInit

AiCall ==
    \E p \in AiCallers :
        \/ AssessBatchBegin(p)
        \/ AssessRiskBegin(p)
        \/ OracleRespond(p, {TRUE})

AiNext == AiTick \/ AiCall

SpecAI == AiInit /\ [][AiNext]_vars

(***************************************************************************)
(* Specification of a service constructed without OPENAI_API_KEY, next to  *)
(* a ledger that one caller appends to.                                    *)
(***************************************************************************)
MockInit == LedgerInit /\ TablesInit /\ RoutesInit /\ AiServiceInit /\ apiKey = FALSE

MockCall ==
    \E p \in AiCallers :
        \/ AssessBatchBegin(p)
        \/ AssessRiskBegin(p)

MockNext == AiTick \/ SecondTick \/ OneCallerAppend \/ MockCall

SpecMock == MockInit /\ [][MockNext]_vars

(***************************************************************************)
(* POST /api/groups/:groupId/risk-scan (server/routes.ts).  The handler    *)
(* is one caller of the storage layer and of the AIService; it is split    *)
(* at its awaits.                                                          *)
(***************************************************************************)
ScanCaller == "c1"

\* the year the server's clock starts in, and the length of a year
StartYear == 2026
MsPerDay == 24 * 60 * 60 * MsPerSecond

\* new Date().getFullYear(), every year taken as 365 days
GetFullYear(clock) == StartYear + ((clock \div MsPerDay) \div 365)

\* new Date(dob).getFullYear() for the dob strings of the model
BirthYear(dob) ==
    CASE dob = "1990-01-01" -> 1990
      [] dob = "1950-01-01" -> 1950
      [] dob = "2026-01-01" -> 2026
      [] dob = "2016-01-01" -> 2016
      [] dob = "2006-01-01" -> 2006
      [] dob = "1996-01-01" -> 1996
      [] dob = "1986-01-01" -> 1986
      [] dob = "1976-01-01" -> 1976
      [] dob = "1966-01-01" -> 1966
      [] dob = "1956-01-01" -> 1956
      [] dob = "1946-01-01" -> 1946
      [] dob = "1936-01-01" -> 1936
      [] dob = "1926-01-01" -> 1926
      [] dob = "1916-01-01" -> 1916
      [] dob = "1906-01-01" -> 1906

\* calculateAgeRange; '' is falsy like null
calculateAgeRange(dob, clock) ==
    IF dob = "" THEN <<"u", "n", "k", "n", "o", "w", "n">>
    ELSE LET age == GetFullYear(clock) - BirthYear(dob)
             decade == (age \div 10) * 10
         IN  AgeRangeString(decade)

countMissingFields(traveler) ==
    (IF traveler.passportNumber = "" THEN 1 ELSE 0)
    + (IF traveler.name = "" THEN 1 ELSE 0)
    + (IF traveler.nationality = "" THEN 1 ELSE 0)
    + (IF traveler.dob = "" THEN 1 ELSE 0)

\* features that carry the passport number itself
FeaturesOfRawPassport(rows, clock) ==
    [i \in 1..Len(rows) |->
        [id |-> rows[i].id,
         passportHash |-> <<"raw", rows[i].passportNumber>>,
         ageRange |-> calculateAgeRange(rows[i].dob, clock),
         missingFieldsCount |-> countMissingFields(rows[i]),
         nationalityRiskLevel |-> NoLevel]]

\* lines 277-283: the PII-safe features of the travelers of the group
FeaturesOf(rows, clock) ==
    [i \in 1..Len(rows) |->
        [id |-> rows[i].id,
         passportHash |-> Sha256(rows[i].passportNumber),
         ageRange |-> calculateAgeRange(rows[i].dob, clock),
         missingFieldsCount |-> countMissingFields(rows[i]),
         nationalityRiskLevel |-> NoLevel]]

\* travelers the group may hold when the scan is requested
ScanTravelers ==
    { [groupId |-> 1, passportNumber |-> "A12345678", name |-> "Ahmed",
       nationality |-> "SA", dob |-> "1990-01-01"],
      [groupId |-> 1, passportNumber |-> "B87654321", name |-> "Fatima",
       nationality |-> "", dob |-> "1950-01-01"] }

ScanTables ==
    UNION {{[k \in 1..n |-> TravelerRow(k, l[k])] : l \in [1..n -> ScanTravelers]} :
             n \in 0..MaxTravelers}

\* getGroup(groupId), getTravelers(groupId)
GetGroup(rows, groupId) == {i \in 1..Len(rows) : rows[i].id = groupId}

GetTravelers(rows, groupId) ==
    LET InGroup(t) == t.groupId = groupId IN SelectSeq(rows, InGroup)

RECURSIVE SumScores(_, _)
SumScores(results, i) ==
    IF i > Len(results) THEN 0
    ELSE results[i].riskScore + SumScores(results, i + 1)

\* a rounding that drops the fraction
MathTrunc(num, den) == num \div den

\* Math.round(num / den) for num >= 0, den > 0: halves go up
MathRound(num, den) == (2 * num + den) \div (2 * den)

\* JSON.stringify of the payload; a NaN average (0 / 0) is written null
ScanPayload(travelersScanned, avg) ==
    "{travelersScanned:" \o ToString(travelersScanned)
        \o ",avgRiskScore:" \o avg \o "}"

AvgRiskScore(results) ==
    IF Len(results) = 0 THEN "null"
    ELSE ToString(MathRound(SumScores(results, 1), Len(results)))

\* a check that lets every group through
NoTravelersNever(rows) == FALSE

\* travelers.length === 0
NoTravelers(rows) == Len(rows) = 0

ScanDone(status) == [NoScan EXCEPT !.pc = "done", !.status = status]

\* lines 261-286: getGroup, getTravelers, the features, assessBatch to its first
\* await or its return
ScanBegin ==
    /\ scan.pc \in {"idle", "done"}
    /\ aiPc[ScanCaller] = "idle"
    /\ pc[ScanCaller] = "idle"
    /\ Len(auditLogs) < MaxLogs
    /\ \E groupId \in GroupIds :
         IF GetGroup(groups, groupId) = {}
         THEN /\ scan' = ScanDone(404)
              /\ UNCHANGED <<now, aiVars>>
         ELSE LET rows == GetTravelers(travelers, groupId)
              IN  IF NoTravelers(rows)
                  THEN /\ scan' = ScanDone(400)
                       /\ UNCHANGED <<now, aiVars>>
                  ELSE /\ AssessBatchCall(ScanCaller, FeaturesOf(rows, now))
                       /\ scan' = [NoScan EXCEPT !.pc = "assess", !.travelers = rows,
                                                 !.logsBefore = Len(auditLogs)]
    /\ UNCHANGED <<ledgerVars, tableVars, trace>>

\* assessBatch returned: const results = ...
ScanResume ==
    /\ scan.pc = "assess"
    /\ aiPc[ScanCaller] = "idle"
    /\ aiRet[ScanCaller].status = "ok"
    /\ scan' = [scan EXCEPT !.pc = "update", !.results = aiRet[ScanCaller].results,
                            !.k = 1]
    /\ UNCHANGED <<now, ledgerVars, tableVars, aiVars, trace>>

\* lines 289-294: one updateTraveler of the loop over the results
ScanUpdate ==
    /\ scan.pc = "update"
    /\ scan.k <= Len(scan.results)
    /\ LET result == scan.results[scan.k]
       IN  travelers' = UpdateTravelerRows(travelers, result.travelerId,
                            [riskScore |-> result.riskScore,
                             riskReason |-> result.riskReason])
    /\ scan' = [scan EXCEPT !.k = scan.k + 1]
    /\ UNCHANGED <<now, ledgerVars, groups, jobsQueue, aiVars, trace>>

\* a handler that writes the audit entry before the loop over the results
ScanAuditBeforeUpdates ==
    /\ scan.pc = "update"
    /\ scan.k = 1
    /\ CreateAuditLogCall(ScanCaller,
          [entityType |-> "group", entityId |-> "g1", action |-> "risk_scan",
           payload |-> ScanPayload(Len(scan.travelers), AvgRiskScore(scan.results)),
           createdAt |-> now])
    /\ scan' = [scan EXCEPT !.pc = "audit"]
    /\ UNCHANGED <<tableVars, aiVars, trace>>

\* lines 297-306: after the loop, createAuditLog is called once
ScanAudit ==
    /\ scan.pc = "update"
    /\ scan.k > Len(scan.results)
    /\ CreateAuditLogCall(ScanCaller,
          [entityType |-> "group", entityId |-> "g1", action |-> "risk_scan",
           payload |-> ScanPayload(Len(scan.travelers), AvgRiskScore(scan.results)),
           createdAt |-> now])
    /\ scan' = [scan EXCEPT !.pc = "audit"]
    /\ UNCHANGED <<tableVars, aiVars, trace>>

\* lines 308-312: createAuditLog returned: res.json({success: true, ...})
ScanRespond ==
    /\ scan.pc = "audit"
    /\ pc[ScanCaller] = "idle"
    /\ ret[ScanCaller].status = "ok"
    /\ scan' = [scan EXCEPT !.pc = "done", !.status = 200]
    /\ UNCHANGED <<now, ledgerVars, tableVars, aiVars, trace>>

ScanInit ==
    /\ LedgerInit
    /\ RoutesInit
    /\ AiServiceInit
    /\ groups \in {<<>>, <<[id |-> 1, name |-> "Demo Umrah Group", status |-> "draft"]>>}
    /\ travelers \in ScanTables
    /\ groups = <<>> => travelers = <<>>
    /\ jobsQueue = <<>>

ScanLedgerSteps ==
    \/ GetLatestAuditLog(ScanCaller)
    \/ ComputeChain(ScanCaller)
    \/ InsertAuditLog(ScanCaller)

ScanNext ==
    \/ ScanBegin
    \/ OracleRespond(ScanCaller, {TRUE})
    \/ ScanResume
    \/ ScanUpdate
    \/ ScanAudit
    \/ ScanLedgerSteps
    \/ ScanRespond

SpecScan == ScanInit /\ [][ScanNext]_vars

(***************************************************************************)
(* Specification of a service with credential whose exchanges with the     *)
(* oracle are recorded: trace holds, for the chunk last sent, the number   *)
(* of requests made, how many were answered 429, and the last answer.      *)
(***************************************************************************)
TraceOf(p, response) ==
    LET first == aiLoc[p].retries = DefaultRetries
    IN  [attempts |-> (IF first THEN 0 ELSE trace.attempts) + 1,
         n429 |-> (IF first THEN 0 ELSE trace.n429)
                    + (IF response.kind = "429" THEN 1 ELSE 0),
         uncached |-> aiLoc[p].uncached,
         last |-> response]

TracedBatchBegin(p) ==
    /\ \E featuresList \in FeatureLists : AssessBatchCall(p, featuresList)
    /\ trace' = NoTrace
    /\ UNCHANGED <<ledgerVars, tableVars, scan>>

TracedRiskBegin(p) ==
    /\ \E features \in FeaturePool : AssessRiskCall(p, features)
    /\ trace' = NoTrace
    /\ UNCHANGED <<ledgerVars, tableVars, scan>>

OracleRespondTraced(p) ==
    /\ \E response \in OracleResponses(Len(aiLoc[p].uncached)) :
          /\ OracleStep(p, response, TRUE)
          /\ trace' = TraceOf(p, response)
    /\ UNCHANGED <<ledgerVars, tableVars, scan>>

OracleInit == AiInit /\ apiKey = TRUE

OracleNext ==
    \E p \in AiCallers :
        \/ TracedBatchBegin(p)
        \/ TracedRiskBegin(p)
        \/ OracleRespondTraced(p)

SpecOracle == OracleInit /\ [][OracleNext]_vars

(***************************************************************************)
(* Specification of the cache of a service with credential whose process   *)
(* may crash and be started again, and whose cache file may fail to be     *)
(* written (disk full, directory not writable).                            *)
(***************************************************************************)
\* the process ends at any point and a new one is constructed: the calls in
\* flight are gone, the answers already given stay given, the map is read
\* from the file
Restart ==
    /\ cache' = loadCache(disk)
    /\ aiPc' = [p \in AiCallers |-> "idle"]
    /\ aiLoc' = [p \in AiCallers |-> InitAiLoc]
    /\ UNCHANGED <<now, ledgerVars, tableVars, apiKey, disk, aiRet, scan, trace>>

CacheInit == AiInit /\ apiKey = TRUE

CacheCall ==
    \E p \in AiCallers :
        \/ AssessRiskBegin(p)
        \/ OracleRespond(p, BOOLEAN)

CacheNext == AiTick \/ CacheCall \/ Restart

SpecCache == CacheInit /\ [][CacheNext]_vars

(***************************************************************************)
(* Claims about the ledger.                                                *)
(***************************************************************************)

\* C1: after appends that never overlapped, every response of verifyAuditChain
\* is valid:true (also on the empty ledger).
C1_SequentialAppendsVerify ==
    (~overlap /\ verified.status = "ok") => verified.valid

\* C2: no two stored entries have the same prevHash, for every interleaving of
\* concurrent createAuditLog calls.
C2_NoSharedPrevHash ==
    \A i, j \in 1..Len(auditLogs) :
        i # j => auditLogs[i].prevHash # auditLogs[j].prevHash

\* C3: a createAuditLog call that had another row inserted between its tail read
\* and its insert fails with ConcurrentAppendConflict and persists no entry.
C3_ConflictOnInterleaving ==
    \A p \in Procs :
        ret[p].interleaved =>
            /\ ret[p].status = "ConcurrentAppendConflict"
            /\ \A i \in 1..Len(auditLogs) : auditLogs[i].id # ret[p].id

\* C4: after the prevHash of exactly one entry e of a sequentially built ledger
\* was overwritten with an incorrect value, verifyAuditChain answers valid:false
\* with brokenAt = e.id.
C4_TamperedEntryReported ==
    (tampered.kind = "prevHash" /\ verified.status = "ok") =>
        (~verified.valid /\ verified.brokenAt = tampered.id)

\* C5: after any one entry of a sequentially built ledger was removed,
\* verifyAuditChain answers valid:false.
C5_DeletionDetected ==
    (tampered.kind = "delete" /\ verified.status = "ok") => ~verified.valid

\* C6: the ledger is append-only: no step of the storage layer removes or changes
\* a row that was already in audit_logs.
C6_AppendOnly ==
    [][\A i \in 1..Len(auditLogs) :
          i <= Len(auditLogs') /\ auditLogs'[i] = auditLogs[i]]_vars

\* a ledger of several rows next to tables that were written and updated
C6_Witness ==
    /\ Len(auditLogs) >= 2
    /\ verified.status = "ok"
    /\ \E k \in 1..Len(travelers) : travelers[k].riskScore # Null
    /\ Len(jobsQueue) > 0
    /\ \E k \in 1..Len(groups) : groups[k].status = "submitted"

(***************************************************************************)
(* Claims about the AIService.                                             *)
(***************************************************************************)
CountId(ids, id) == Cardinality({i \in 1..Len(ids) : ids[i] = id})

InputIds(r) == [i \in 1..Len(r.input) |-> r.input[i].id]
ResultIds(r) == [i \in 1..Len(r.results) |-> r.results[i].travelerId]

BatchReturned(p) == aiRet[p].op = "assessBatch" /\ aiRet[p].status = "ok"

\* C7: assessBatch on K records returns exactly K assessments, one for each input
\* subject id, whatever the mix of cache hits, oracle results and fallbacks.
C7_OneAssessmentPerSubject ==
    \A p \in AiCallers :
        BatchReturned(p) =>
            /\ Len(aiRet[p].results) = Len(aiRet[p].input)
            /\ \A f \in FeaturePool :
                  CountId(ResultIds(aiRet[p]), f.id) = CountId(InputIds(aiRet[p]), f.id)

\* a batch of three that mixed a cache hit, an oracle result and a fallback
C7_Witness ==
    \E p \in AiCallers :
        /\ BatchReturned(p)
        /\ Len(aiRet[p].input) = 3
        /\ aiRet[p].hits >= 1 /\ aiRet[p].scored >= 1 /\ aiRet[p].fallbacks >= 1

\* C8: the list returned by assessBatch is in input order: the i-th assessment
\* has the subject id of the i-th input record.
C8_InputOrder ==
    \A p \in AiCallers :
        BatchReturned(p) =>
            /\ Len(aiRet[p].results) = Len(aiRet[p].input)
            /\ \A i \in 1..Len(aiRet[p].input) :
                  aiRet[p].results[i].travelerId = aiRet[p].input[i].id

\* C9: no oracle behaviour makes assessBatch or assessRisk raise: every call
\* returns, with an assessment for every subject it was given.
C9_OracleFailuresAbsorbed ==
    \A p \in AiCallers :
        /\ aiRet[p].status # "error"
        /\ aiRet[p].status = "ok" =>
              \A i \in 1..Len(aiRet[p].input) :
                 \E k \in 1..Len(aiRet[p].results) :
                    aiRet[p].results[k].travelerId = aiRet[p].input[i].id

\* a call that used up its retries and fell back, and returned
C9_Witness ==
    \E p \in AiCallers :
        /\ aiRet[p].status = "ok"
        /\ aiRet[p].fetches >= DefaultRetries + 1
        /\ aiRet[p].fallbacks >= 1

C10_MockResults ==
    \A p \in AiCallers :
        (~apiKey /\ aiRet[p].op = "assessBatch") =>
            /\ aiRet[p].status = "ok"
            /\ aiRet[p].results = MockAll(aiRet[p].input)
            /\ aiRet[p].fetches = 0

\* C10: without credential assessBatch returns the mockAssessment output for
\* every input subject whatever the cache holds, makes no oracle call, raises no
\* error, and the step that runs it leaves the audit ledger unchanged.
C10_NoCredentialAllMock ==
    /\ []C10_MockResults
    /\ [][aiRet' # aiRet => auditLogs' = auditLogs]_vars

\* a mock-mode batch over a subject whose fingerprint has a live cache entry, with
\* entries in the ledger
C10_Witness ==
    \E p \in AiCallers :
        /\ ~apiKey
        /\ BatchReturned(p)
        /\ Len(aiRet[p].input) >= 2
        /\ \E i \in 1..Len(aiRet[p].input) :
              getFromCache(cache, now, generateFingerprint(aiRet[p].input[i])) # NoEntry
        /\ Len(auditLogs) >= 1

(***************************************************************************)
(* Claims about the risk-scan route.                                       *)
(***************************************************************************)
NewLogs == SubSeq(auditLogs, scan.logsBefore + 1, Len(auditLogs))

\* the integers that are the mean of the scores rounded to the nearest, halves up
RoundedMeans(results) ==
    {a \in 0..200 :
        /\ 2 * a * Len(results) - Len(results) <= 2 * SumScores(results, 1)
        /\ 2 * SumScores(results, 1) < 2 * a * Len(results) + Len(results)}

ScanSucceeded == scan.pc = "done" /\ scan.status = 200

\* C11: a successful risk scan of n >= 1 travelers has appended exactly one audit
\* entry, with action risk_scan and payload travelersScanned = n, avgRiskScore =
\* the rounded mean of the returned scores, wherever the scores came from.
C11_OneAuditPerScan ==
    ScanSucceeded =>
        /\ Len(scan.travelers) >= 1
        /\ Len(NewLogs) = 1
        /\ NewLogs[1].action = "risk_scan"
        /\ \E a \in RoundedMeans(scan.results) :
              NewLogs[1].payload = ScanPayload(Len(scan.travelers), ToString(a))

\* a second scan of two travelers that mixed a cache hit with an oracle score and
\* whose mean is not a whole number
C11_Witness ==
    /\ ScanSucceeded
    /\ Len(scan.travelers) = 2
    /\ scan.logsBefore >= 1
    /\ aiRet[ScanCaller].hits >= 1 /\ aiRet[ScanCaller].scored >= 1
    /\ SumScores(scan.results, 1) % 2 = 1

\* C12: a risk scan of a group without travelers answers 400 straight from the
\* request, and the step appends nothing to the ledger, updates no traveler and
\* calls neither assessBatch nor the oracle.
C12_EmptyScanRejected ==
    [][(scan'.pc = "done" /\ scan # scan'
          /\ GetGroup(groups, 1) # {} /\ GetTravelers(travelers, 1) = <<>>)
        => /\ scan'.status = 400
           /\ scan.pc \in {"idle", "done"}
           /\ auditLogs' = auditLogs
           /\ travelers' = travelers
           /\ UNCHANGED <<pc, aiPc, aiLoc, aiRet, cache, disk>>]_vars

\* the group exists, has no travelers, and its scan was answered 400
C12_Witness ==
    /\ scan.pc = "done" /\ scan.status = 400
    /\ GetGroup(groups, 1) # {}
    /\ travelers = <<>>
    /\ auditLogs = <<>>

(***************************************************************************)
(* Claims about the exchanges with the oracle.                             *)
(***************************************************************************)
ResultFor(r, id) ==
    r.results[CHOOSE k \in 1..Len(r.results) : r.results[k].travelerId = id]

\* the last chunk sent was answered by a parseable array
AnsweredByArray(p) ==
    /\ aiRet[p].status = "ok"
    /\ trace.last.kind = "array"

\* C13: when the oracle answers a miss subset of m subjects with a parseable
\* array of fewer than m elements, the subjects without element get their
\* mockAssessment, the subjects with an element the oracle's score and reason.
C13_ShortArrayFallback ==
    \A p \in AiCallers :
        (AnsweredByArray(p) /\ Len(trace.last.elems) < Len(trace.uncached)) =>
            \A i \in 1..Len(trace.uncached) :
                LET f == trace.uncached[i]
                IN  IF i > Len(trace.last.elems)
                    THEN ResultFor(aiRet[p], f.id) = mockAssessment(f)
                    ELSE trace.last.elems[i] # MissingElem =>
                            ResultFor(aiRet[p], f.id) =
                                Assessment(f.id, trace.last.elems[i].riskScore,
                                           trace.last.elems[i].riskReason)

\* C14: for one chunk the oracle is requested at most 3 times in total, whatever
\* the mix of 429 answers and network failures.
C14_ThreeAttemptsInTotal == trace.attempts <= DefaultRetries

FailedAttempt == trace.last.kind \in {"429", "network"}

\* C14 as amended: for one chunk the oracle is requested at most 1 + 3 times, the
\* first request and 3 retries; after the last retry failed the chunk is failed:
\* its subjects are scored by the fallback and no request is pending for it.
C14_RetryBudget ==
    /\ trace.attempts <= DefaultRetries + 1
    /\ \A p \in AiCallers :
          (trace.attempts = DefaultRetries + 1 /\ FailedAttempt) =>
              /\ aiPc[p] = "oracle" =>
                    (aiLoc[p].retries = DefaultRetries /\ aiLoc[p].uncached # trace.uncached)
              /\ (IF aiPc[p] = "oracle" THEN aiLoc[p].fallbacks ELSE aiRet[p].fallbacks)
                    >= Len(trace.uncached)

\* the budget was used up by a mix of 429 answers and network failures
C14_Witness ==
    /\ trace.attempts = DefaultRetries + 1
    /\ FailedAttempt
    /\ trace.n429 \in 1..DefaultRetries
    /\ \E p \in AiCallers : aiRet[p].status = "ok" /\ aiRet[p].fallbacks >= 1

WellFormed(response) ==
    /\ response.kind = "array"
    /\ Len(response.elems) >= 1
    /\ response.elems[1] # MissingElem

\* C15: when every request of assessRisk but the last was answered 429, fewer
\* times than the retry budget, and the last by a well-formed completion,
\* assessRisk returns the oracle's score and reason and uses no fallback.
C15_SuccessAfter429 ==
    \A p \in AiCallers :
        ( /\ aiRet[p].op = "assessRisk" /\ aiRet[p].status = "ok"
          /\ trace.n429 >= 1 /\ trace.n429 < DefaultRetries
          /\ trace.attempts = trace.n429 + 1
          /\ WellFormed(trace.last) ) =>
            /\ aiRet[p].results =
                  <<Assessment(aiRet[p].input[1].id, trace.last.elems[1].riskScore,
                               trace.last.elems[1].riskReason)>>
            /\ aiRet[p].fallbacks = 0

\* two 429 answers, then the oracle's score on the third request
C15_Witness ==
    \E p \in AiCallers :
        /\ aiRet[p].op = "assessRisk" /\ aiRet[p].status = "ok"
        /\ trace.n429 = 2 /\ trace.attempts = 3
        /\ WellFormed(trace.last)
        /\ aiRet[p].scored = 1

(***************************************************************************)
(* Claims about the cache.                                                 *)
(***************************************************************************)
C16_Lookup ==
    \A fp \in DOMAIN cache :
        getFromCache(cache, now, fp) =
            IF now - cache[fp].timestamp < cacheTTL THEN cache[fp] ELSE NoEntry

\* C16: an entry (s, r) stored under f at time t is what getFromCache(f) returns
\* at every time now with now - t < TTL, and getFromCache(f) is absent at every
\* time with now - t >= TTL, as long as f is not stored again: every stored entry
\* carries the time of its store, stays as it is until the next store under f,
\* and is served exactly while younger than the TTL.
C16_CacheRoundTrip ==
    /\ []C16_Lookup
    /\ [][\A fp \in DOMAIN cache' :
             \/ fp \in DOMAIN cache /\ cache'[fp] = cache[fp]
             \/ cache'[fp].timestamp = now]_vars

\* one entry has reached exactly the TTL, another was stored later and is live
C16_Witness ==
    \E fp1, fp2 \in DOMAIN cache :
        /\ now - cache[fp1].timestamp = cacheTTL
        /\ getFromCache(cache, now, fp1) = NoEntry
        /\ cache[fp2].timestamp > 0
        /\ getFromCache(cache, now, fp2) = cache[fp2]

\* C17: once a cache write has returned to its caller (assessRisk answered with
\* an oracle score), the cache file holds that entry, also when the write of the
\* file failed, so that a process started after a crash still has it.
C17_WriteThenAck ==
    \A p \in AiCallers :
        (aiRet[p].op = "assessRisk" /\ aiRet[p].status = "ok" /\ aiRet[p].scored = 1) =>
            LET fp == generateFingerprint(aiRet[p].input[1])
            IN  /\ fp \in DOMAIN disk
                /\ disk[fp].riskScore = aiRet[p].results[1].riskScore
                /\ disk[fp].riskReason = aiRet[p].results[1].riskReason
                /\ fp \in DOMAIN cache
                /\ cache[fp] = disk[fp]

\* the cache holds a live entry under the fingerprint of f with the score and
\* reason of assessment a
CacheHolds(f, a) ==
    LET e == getFromCache(cache, now, generateFingerprint(f))
    IN  e # NoEntry /\ e.riskScore = a.riskScore /\ e.riskReason = a.riskReason

\* the last chunk sent was answered with an element for every subject
AnsweredInFull(p) ==
    /\ AnsweredByArray(p)
    /\ Len(trace.last.elems) = Len(trace.uncached)

\* C18: after the oracle answered a miss subset, the call has returned with the
\* cache holding, for every subject of the subset, a live entry with the score
\* and reason returned for that subject.
C18_CacheHoldsEachScore ==
    \A p \in AiCallers :
        AnsweredInFull(p) =>
            \A i \in 1..Len(trace.uncached) :
                CacheHolds(trace.uncached[i], ResultFor(aiRet[p], trace.uncached[i].id))

\* the last subject of the subset with the fingerprint of its i-th subject
LastWithFingerprint(subset, i) ==
    subset[Max({j \in 1..Len(subset) :
                  generateFingerprint(subset[j]) = generateFingerprint(subset[i])})]

C18_LiveEntries ==
    \A p \in AiCallers :
        AnsweredByArray(p) =>
            \A i \in 1..Len(trace.uncached) :
                CacheHolds(trace.uncached[i],
                           ResultFor(aiRet[p], LastWithFingerprint(trace.uncached, i).id))

\* the records of the call that p enters in this step
Entered(p) == IF aiPc'[p] = "oracle" THEN aiLoc'[p].featuresList ELSE aiRet'[p].input

\* C18 as amended: after the oracle answered a miss subset, the call has returned
\* with the cache holding, under the fingerprint of every subject of the subset,
\* a live entry with the score and reason returned for the last subject of the
\* subset that has this fingerprint; and a call entered while every one of its
\* records has a live entry returns at once, all hits, without oracle request.
C18_CachedBeforeReturn ==
    /\ []C18_LiveEntries
    /\ [][\A p \in AiCallers :
             ( /\ aiPc[p] = "idle"
               /\ aiPc'[p] = "oracle" \/ aiRet'[p] # aiRet[p]
               /\ \A i \in 1..Len(Entered(p)) :
                     getFromCache(cache, now, generateFingerprint(Entered(p)[i])) # NoEntry )
             => /\ aiPc'[p] = "idle"
                /\ aiRet'[p].fetches = 0
                /\ aiRet'[p].hits = Len(aiRet'[p].input)]_vars

\* the oracle scored a subset of two subjects with different features
C18_Witness ==
    \E p \in AiCallers :
        /\ AnsweredByArray(p)
        /\ Len(trace.uncached) = 2
        /\ Len(trace.last.elems) = 2
        /\ generateFingerprint(trace.uncached[1]) # generateFingerprint(trace.uncached[2])
        /\ aiRet[p].results[1].riskScore # aiRet[p].results[2].riskScore

(***************************************************************************)
(* Claims about the scores.                                                *)
(***************************************************************************)
\* C19: every assessment returned by assessRisk or assessBatch and every entry of
\* the cache has a riskScore in 0..100, whatever the oracle answered.
C19_ScoreRange ==
    /\ \A p \in AiCallers :
          \A k \in 1..Len(aiRet[p].results) : aiRet[p].results[k].riskScore \in 0..100
    /\ \A fp \in DOMAIN cache : cache[fp].riskScore \in 0..100

\* every record of the call was scored by the fallback
AllFallback(r) ==
    /\ r.status = "ok"
    /\ Len(r.input) >= 1
    /\ r.hits = 0 /\ r.scored = 0
    /\ r.fallbacks = Len(r.input)

\* the score and reason returned for the i-th record of the call
FallbackOutput(r, i) ==
    LET a == ResultFor(r, r.input[i].id) IN <<a.riskScore, a.riskReason>>

\* C20: the fallback score and reason of a record are those of its features
\* alone: the same with and without credential, at every clock value, whatever
\* the cache holds and whatever calls came before; records with equal features
\* get equal scores and reasons, and no fallback changes the cache or the file.
C20_Fallbacks ==
    \A p \in AiCallers :
        AllFallback(aiRet[p]) =>
            /\ \A i \in 1..Len(aiRet[p].input) :
                  LET m == mockAssessment(aiRet[p].input[i])
                  IN  FallbackOutput(aiRet[p], i) = <<m.riskScore, m.riskReason>>
            /\ \A i, j \in 1..Len(aiRet[p].input) :
                  generateFingerprint(aiRet[p].input[i])
                        = generateFingerprint(aiRet[p].input[j])
                    => FallbackOutput(aiRet[p], i) = FallbackOutput(aiRet[p], j)

RuleDobs ==
    {"", "2026-01-01", "2016-01-01", "2006-01-01", "1996-01-01", "1986-01-01",
     "1976-01-01", "1966-01-01", "1956-01-01", "1946-01-01", "1936-01-01",
     "1926-01-01", "1916-01-01", "1906-01-01"}

\* countMissingFields counts four fields
RuleMissingCounts == 0..4

RuleFeatures ==
    {[id |-> "t1", passportHash |-> Sha256("A12345678"),
      ageRange |-> calculateAgeRange(dob, 0),
      missingFieldsCount |-> m, nationalityRiskLevel |-> level] :
        dob \in RuleDobs, m \in RuleMissingCounts, level \in {NoLevel, "high", "low"}}

RuleCall ==
    /\ \E p \in AiCallers, features \in RuleFeatures : AssessRiskCall(p, features)
    /\ UNCHANGED <<ledgerVars, tableVars, scan, trace>>

RuleInit == LedgerInit /\ TablesInit /\ RoutesInit /\ AiUnusedInit

RuleNext == RuleCall

SpecRule == RuleInit /\ [][RuleNext]_vars

(***************************************************************************)
(* POST groups.create, travelers.create and travelers.bulkCreate           *)
(* (server/routes.ts).  One request is handled at a time; scan holds the   *)
(* request in progress: its route, the rows it created, the length of the  *)
(* ledger when it came in, and the status of the response.                 *)
(***************************************************************************)
MaxGroups == 2

RouteCaller == "c1"

CreateRoutes == {"groups.create", "travelers.create", "travelers.bulkCreate"}

RouteIdle ==
    /\ scan.pc \in {"idle", "done"}
    /\ pc[RouteCaller] = "idle"

NewRequest(route) == [NoScan EXCEPT !.route = route, !.logsBefore = Len(auditLogs)]

\* JSON.stringify of { name: group.name } and of { count: travelers.length }
NamePayload(name) == "{name:" \o name \o "}"
CountPayload(count) == "{count:" \o ToString(count) \o "}"

\* lines 51-52: the body is parsed and storage.createGroup inserts the group
GroupsCreateBegin ==
    /\ RouteIdle
    /\ Len(groups) < MaxGroups
    /\ \E g \in InsertGroups :
          /\ groups' = Append(groups, [id |-> Len(groups) + 1, name |-> g.name,
                                       status |-> g.status])
          /\ scan' = [NewRequest("groups.create") EXCEPT
                          !.pc = "created", !.k = Len(groups) + 1]
    /\ UNCHANGED <<now, ledgerVars, travelers, jobsQueue, aiVars, trace>>

\* lines 55-61: createAuditLog is entered for the group
GroupsCreateAudit ==
    /\ scan.route = "groups.create"
    /\ scan.pc = "created"
    /\ CreateAuditLogCall(RouteCaller,
          [entityType |-> "group", entityId |-> ToString(scan.k), action |-> "create",
           payload |-> NamePayload(groups[scan.k].name), createdAt |-> now])
    /\ scan' = [scan EXCEPT !.pc = "audit"]
    /\ UNCHANGED <<tableVars, aiVars, trace>>

\* lines 78-82: storage.createTraveler, then res.status(201).json(traveler)
TravelersCreate ==
    /\ RouteIdle
    /\ Len(travelers) < MaxTravelers
    /\ \E t \in InsertTravelers :
          travelers' = Append(travelers, TravelerRow(Len(travelers) + 1, t))
    /\ scan' = [NewRequest("travelers.create") EXCEPT !.pc = "done", !.status = 201]
    /\ UNCHANGED <<now, ledgerVars, groups, jobsQueue, aiVars, trace>>

\* lines 93-97: storage.bulkCreateTravelers(input.travelers); an empty result
\* skips the audit and is answered at once (line 107)
BulkCreateBegin ==
    /\ RouteIdle
    /\ \E n \in 0..(MaxTravelers - Len(travelers)), t \in InsertTravelers :
         LET rows == [k \in 1..n |-> TravelerRow(Len(travelers) + k, t)]
         IN  /\ travelers' = travelers \o rows
             /\ scan' = IF Len(rows) > 0
                        THEN [NewRequest("travelers.bulkCreate") EXCEPT
                                  !.pc = "created", !.travelers = rows]
                        ELSE [NewRequest("travelers.bulkCreate") EXCEPT
                                  !.pc = "done", !.status = 201]
    /\ UNCHANGED <<now, ledgerVars, groups, jobsQueue, aiVars, trace>>

\* lines 98-104: createAuditLog is entered for the imported travelers
BulkCreateAudit ==
    /\ scan.route = "travelers.bulkCreate"
    /\ scan.pc = "created"
    /\ CreateAuditLogCall(RouteCaller,
          [entityType |-> "group", entityId |-> ToString(scan.travelers[1].groupId),
           action |-> "bulk_create_travelers",
           payload |-> CountPayload(Len(scan.travelers)), createdAt |-> now])
    /\ scan' = [scan EXCEPT !.pc = "audit"]
    /\ UNCHANGED <<tableVars, aiVars, trace>>

\* lines 63 and 107: createAuditLog returned, res.status(201).json(...)
RouteRespond ==
    /\ scan.route \in CreateRoutes
    /\ scan.pc = "audit"
    /\ pc[RouteCaller] = "idle"
    /\ ret[RouteCaller].status = "ok"
    /\ scan' = [scan EXCEPT !.pc = "done", !.status = 201]
    /\ UNCHANGED <<now, ledgerVars, tableVars, aiVars, trace>>

RouteLedgerSteps ==
    \/ GetLatestAuditLog(RouteCaller)
    \/ ComputeChain(RouteCaller)
    \/ InsertAuditLog(RouteCaller)

RoutesNext ==
    \/ SecondTick
    \/ GroupsCreateBegin
    \/ GroupsCreateAudit
    \/ TravelersCreate
    \/ BulkCreateBegin
    \/ BulkCreateAudit
    \/ RouteLedgerSteps
    \/ RouteRespond

SpecRoutes == Init /\ [][RoutesNext]_vars

(***************************************************************************)
(* The edge function (supabase/functions/api/index.ts) serves the same     *)
(* routes from its own database: groups, travelers and auditLogs are here  *)
(* the tables groups, travelers and audit_logs of that database.  A        *)
(* statement of the client does not throw: it resolves to { data, error }. *)
(***************************************************************************)
EdgeRoutes == {"edge.groups.create", "edge.travelers.create", "edge.travelers.bulk"}

\* the row of the audit_logs insert: entityType, entityId, action, payload and
\* createdAt are given, prev_hash and hash are not
EdgeAuditRow(id, log, clock) ==
    [id |-> id, entityType |-> log.entityType, entityId |-> log.entityId,
     action |-> log.action, payload |-> log.payload,
     prevHash |-> <<>>, hash |-> <<>>, createdAt |-> clock]

EdgeIdle ==
    /\ scan.pc \in {"idle", "done"}
    /\ Len(auditLogs) < MaxLogs

\* the catch at the end of serve: 500
EdgeThrew(route) == [NewRequest(route) EXCEPT !.pc = "done", !.status = 500]

\* lines 72-85: the insert into groups; if (error) throw error
EdgeGroupsCreate ==
    /\ EdgeIdle
    /\ Len(groups) < MaxGroups
    /\ \E g \in InsertGroups, ok \in BOOLEAN :
          IF ok
          THEN /\ groups' = Append(groups, [id |-> Len(groups) + 1, name |-> g.name,
                                            status |-> g.status])
               /\ scan' = [NewRequest("edge.groups.create") EXCEPT
                               !.pc = "edge_audit", !.k = Len(groups) + 1]
          ELSE /\ groups' = groups
               /\ scan' = EdgeThrew("edge.groups.create")
    /\ UNCHANGED <<now, ledgerVars, travelers, jobsQueue, aiVars, trace>>

\* lines 129-144: the insert into travelers, 201 or the thrown error
EdgeTravelersCreate ==
    /\ EdgeIdle
    /\ Len(travelers) < MaxTravelers
    /\ \E t \in InsertTravelers, ok \in BOOLEAN :
          IF ok
          THEN /\ travelers' = Append(travelers, TravelerRow(Len(travelers) + 1, t))
               /\ scan' = [NewRequest("edge.travelers.create") EXCEPT
                               !.pc = "done", !.status = 201]
          ELSE /\ travelers' = travelers
               /\ scan' = EdgeThrew("edge.travelers.create")
    /\ UNCHANGED <<now, ledgerVars, groups, jobsQueue, aiVars, trace>>

\* lines 147-164: the insert of the list into travelers; without rows the audit
\* is skipped (line 166) and the answer is 201
EdgeBulkCreate ==
    /\ EdgeIdle
    /\ \E n \in 0..(MaxTravelers - Len(travelers)), t \in InsertTravelers,
          ok \in BOOLEAN :
         LET rows == [k \in 1..n |-> TravelerRow(Len(travelers) + k, t)]
         IN  IF ~ok
             THEN /\ travelers' = travelers
                  /\ scan' = EdgeThrew("edge.travelers.bulk")
             ELSE /\ travelers' = travelers \o rows
                  /\ scan' = IF Len(rows) > 0
                             THEN [NewRequest("edge.travelers.bulk") EXCEPT
                                       !.pc = "edge_audit", !.travelers = rows]
                             ELSE [NewRequest("edge.travelers.bulk") EXCEPT
                                       !.pc = "done", !.status = 201]
    /\ UNCHANGED <<now, ledgerVars, groups, jobsQueue, aiVars, trace>>

\* the object the route inserts into audit_logs (lines 87-92 and 167-172)
EdgeAuditLog(request) ==
    IF request.route = "edge.groups.create"
    THEN [entityType |-> "group", entityId |-> ToString(request.k), action |-> "create",
          payload |-> NamePayload(groups[request.k].name)]
    ELSE [entityType |-> "group", entityId |-> ToString(request.travelers[1].groupId),
          action |-> "bulk_create_travelers",
          payload |-> CountPayload(Len(request.travelers))]

\* lines 86-95 and 166-176: await supabaseClient.from('audit_logs').insert([...])
\* -- the { error } it resolves to is not read -- then jsonResponse(data, 201)
EdgeAuditInsert ==
    /\ scan.pc = "edge_audit"
    /\ \E ok \in BOOLEAN :
          /\ IF ok
             THEN /\ auditLogs' = InsertRow(auditLogs,
                                     EdgeAuditRow(nextId, EdgeAuditLog(scan), now))
                  /\ nextId' = nextId + 1
             ELSE UNCHANGED <<auditLogs, nextId>>
          /\ scan' = [scan EXCEPT !.pc = "done", !.status = 201, !.auditError = ~ok]
    /\ UNCHANGED <<now, pc, loc, ret, verified, overlap, tampered, tableVars, aiVars,
                   trace>>

EdgeNext ==
    \/ SecondTick
    \/ EdgeGroupsCreate
    \/ EdgeTravelersCreate
    \/ EdgeBulkCreate
    \/ EdgeAuditInsert

SpecEdge == Init /\ [][EdgeNext]_vars

(***************************************************************************)
(* Specification of one caller who appends with a createdAt of its own     *)
(* choice: absent, the time of the call, or the start of the clock.        *)
(***************************************************************************)
BackdatedAppend ==
    \/ CreateAuditLogBegin("c1", {NoDate, now, 0})
    \/ GetLatestAuditLog("c1")
    \/ ComputeChain("c1")
    \/ InsertAuditLog("c1")

BackdatedNext == ClockTick \/ BackdatedAppend

SpecBackdated == Init /\ [][BackdatedNext]_vars

(***************************************************************************)
(* Specification of the cache keys: a service with credential and an empty *)
(* cache is handed two records with different ids; the oracle scores both, *)
(* so the cache then holds one entry per fingerprint.                      *)
(***************************************************************************)
\* ageRange and nationalityRiskLevel are strings of the caller's choice
FingerprintFields ==
    [passportHash : {Sha256("A12345678"), Sha256("B87654321")},
     ageRange : {AgeRangeString(70), AgeRangeString(70) \o <<":", "1">>},
     missingFieldsCount : {1, 2},
     nationalityRiskLevel : {NoLevel, "", "2:"}]

WithId(id, fields) ==
    [id |-> id, passportHash |-> fields.passportHash, ageRange |-> fields.ageRange,
     missingFieldsCount |-> fields.missingFieldsCount,
     nationalityRiskLevel |-> fields.nationalityRiskLevel]

FingerprintLists ==
    {<<WithId("t1", a), WithId("t2", b)>> : a \in FingerprintFields, b \in FingerprintFields}

\* the first call of the process
FingerprintBatchBegin ==
    /\ cache = EmptyCache
    /\ \E p \in AiCallers, featuresList \in FingerprintLists :
          AssessBatchCall(p, featuresList)
    /\ UNCHANGED <<ledgerVars, tableVars, scan, trace>>

\* the oracle scores every record it was sent
FingerprintOracleRespond ==
    /\ \E p \in AiCallers :
         \E response \in {r \in OracleContents(Len(aiLoc[p].uncached)) :
                            /\ r.kind = "array"
                            /\ Len(r.elems) = Len(aiLoc[p].uncached)
                            /\ \A k \in 1..Len(r.elems) : r.elems[k] # MissingElem} :
            OracleStep(p, response, TRUE)
    /\ UNCHANGED <<ledgerVars, tableVars, scan, trace>>

FingerprintInit ==
    /\ LedgerInit /\ TablesInit /\ RoutesInit
    /\ AiServiceInit
    /\ apiKey = TRUE
    /\ disk = EmptyCache

FingerprintNext == FingerprintBatchBegin \/ FingerprintOracleRespond

SpecFingerprint == FingerprintInit /\ [][FingerprintNext]_vars

(***************************************************************************)
(* What the oracle is sent, and the risk scan over groups that also hold a *)
(* traveler without passport number.                                       *)
(***************************************************************************)
\* passportHash.substring(0, 8): a prefix of the hex digits of the digest
Substring8(h) == <<"substring(0,8)", h>>

\* buildPrompt: per record its position, age range, number of missing fields
\* and the prefix of its passport hash; the rest of the prompt is fixed text
buildPrompt(featuresList) ==
    [i \in 1..Len(featuresList) |->
        [traveler |-> i, age |-> featuresList[i].ageRange,
         missing |-> featuresList[i].missingFieldsCount,
         hash |-> Substring8(featuresList[i].passportHash)]]

\* the user message of the request callOpenAI has in flight
OracleRequest(p) == buildPrompt(aiLoc[p].uncached)

PrivacyTravelers ==
    ScanTravelers
    \cup { [groupId |-> 1, passportNumber |-> "", name |-> "Omar",
            nationality |-> "PK", dob |-> "1990-01-01"] }

PrivacyTables ==
    UNION {{[k \in 1..n |-> TravelerRow(k, l[k])] : l \in [1..n -> PrivacyTravelers]} :
             n \in 0..MaxTravelers}

PrivacyInit ==
    /\ LedgerInit
    /\ RoutesInit
    /\ AiServiceInit
    /\ groups = <<[id |-> 1, name |-> "Demo Umrah Group", status |-> "draft"]>>
    /\ travelers \in PrivacyTables
    /\ jobsQueue = <<>>

SpecPrivacy == PrivacyInit /\ [][ScanNext]_vars

(***************************************************************************)
(* The service with credential under an oracle that refuses every request  *)
(* with 429 or lets it end in a network error.  Every request ends after a *)
(* finite time: the step that ends one is weakly fair.                     *)
(***************************************************************************)
RefusingResponses == {[kind |-> k, elems |-> <<>>] : k \in {"429", "network"}}

RefusingRespond(p) ==
    /\ \E response \in RefusingResponses :
          /\ OracleStep(p, response, TRUE)
          /\ trace' = TraceOf(p, response)
    /\ UNCHANGED <<ledgerVars, tableVars, scan>>

RefusingNext ==
    \E p \in AiCallers :
        \/ TracedBatchBegin(p)
        \/ RefusingRespond(p)

EveryRequestEnds == \A p \in AiCallers : WF_vars(RefusingRespond(p))

SpecRefusing == OracleInit /\ [][RefusingNext]_vars /\ EveryRequestEnds

(***************************************************************************)
(* The risk-scan route over a database whose UPDATE may fail: the error    *)
(* of updateTraveler leaves the loop and is answered 500 by the catch.     *)
(***************************************************************************)
\* lines 289-294 and 313-316: updateTraveler rejects, the handler answers 500
ScanUpdateFails ==
    /\ scan.pc = "update"
    /\ scan.k <= Len(scan.results)
    /\ scan' = [scan EXCEPT !.pc = "done", !.status = 500]
    /\ UNCHANGED <<now, ledgerVars, tableVars, aiVars, trace>>

ScanFaultyNext ==
    \/ ScanNext
    \/ ScanUpdateFails

SpecScanFaulty == ScanInit /\ [][ScanFaultyNext]_vars

(***************************************************************************)
(* One AIService with credential that two requests call at the same time:  *)
(* each calls assessBatch once, the calls interleave at their awaits of    *)
(* callOpenAI and share the Map and the cache file.                        *)
(***************************************************************************)
BatchCallers == {"c1", "c2"}

ConcurrentInit ==
    /\ LedgerInit
    /\ TablesInit
    /\ RoutesInit
    /\ apiKey = TRUE
    /\ disk \in InitialDisks
    /\ cache = loadCache(disk)
    /\ aiPc = [p \in BatchCallers |-> "idle"]
    /\ aiLoc = [p \in BatchCallers |-> InitAiLoc]
    /\ aiRet = [p \in BatchCallers |-> NoAiRet]

ConcurrentBatchBegin(p) ==
    /\ aiRet[p].status = "none"
    /\ AssessBatchBegin(p)

\* the answers of the oracle that end a request of n records: a failure, text
\* that does not parse, or an array of n elements with one score
ConcurrentResponses(n) ==
    {[kind |-> k, elems |-> <<>>] : k \in {"failure", "unparseable"}}
    \cup {[kind |-> "array", elems |-> [i \in 1..n |-> e]] :
            e \in OracleElems \ {MissingElem}}

\* a request of p ends, the write of the cache file succeeds
ConcurrentRespond(p) ==
    /\ \E response \in ConcurrentResponses(Len(aiLoc[p].uncached)) :
          OracleStep(p, response, TRUE)
    /\ UNCHANGED <<ledgerVars, tableVars, scan, trace>>

ConcurrentNext ==
    \E p \in BatchCallers :
        \/ ConcurrentBatchBegin(p)
        \/ ConcurrentRespond(p)

SpecConcurrent == ConcurrentInit /\ [][ConcurrentNext]_vars

(***************************************************************************)
(* Claims about the routes that create rows.                               *)
(***************************************************************************)
RouteSucceeded(route) ==
    scan.route = route /\ scan.pc = "done" /\ scan.status = 201

\* C22: each successful create-group, create-traveler and bulk-import request
\* adds exactly one entry to the ledger.
C22_OneAuditPerCreate ==
    \A route \in CreateRoutes :
        RouteSucceeded(route) => Len(auditLogs) = scan.logsBefore + 1

(***************************************************************************)
(* Claims about the fallback rule.                                         *)
(***************************************************************************)
\* the two oldest brackets the rule names: 70-80 and 80-90
OldestTwoBrackets == {AgeRangeString(70), AgeRangeString(80)}

ReferenceScore(features) ==
    Min(100,
        10 + (IF features.ageRange \in OldestTwoBrackets THEN 30 ELSE 0)
           + (IF features.missingFieldsCount > 3 THEN 40
              ELSE IF features.missingFieldsCount > 0 THEN 15 ELSE 0)
           + (IF features.nationalityRiskLevel = "high" THEN 25 ELSE 0))

\* C21: the fallback returns the score of the reference rule for every record:
\* 10, plus 30 exactly for the two oldest brackets, plus 40 for more than three
\* missing fields or else 15 for at least one, plus 25 exactly for the hint
\* "high", at most 100; over every age bucket calculateAgeRange produces.
C21_ReferenceRule ==
    \A p \in AiCallers :
        (aiRet[p].status = "ok" /\ aiRet[p].op = "assessRisk" /\ aiRet[p].fallbacks = 1)
            => aiRet[p].results[1].riskScore = ReferenceScore(aiRet[p].input[1])

(***************************************************************************)
(* Claims about the entries written by every component.                    *)
(***************************************************************************)
\* C23: a failure of the audit insert is never swallowed: a request whose audit
\* insert failed is not answered with a success status, in every component that
\* writes audit entries.
C23_AuditFailureSurfaced ==
    (scan.pc = "done" /\ scan.auditError) => scan.status \notin 200..299

\* C24: every audit entry, whichever component wrote it, is chained: its hash
\* is set and its prevHash is the hash of the entry before it, or the genesis
\* sentinel for the first.
C24_EveryEntryChained ==
    \A i \in 1..Len(auditLogs) :
        /\ auditLogs[i].hash # <<>>
        /\ auditLogs[i].prevHash = CorrectPrevHash(auditLogs, i)

(***************************************************************************)
(* Claims about the entries written by createAuditLog.                     *)
(***************************************************************************)
\* the stored hash is the digest of the stored prevHash, the digest of the
\* stored payload and the stored createdAt (a time in whole seconds)
HashOverStoredFields(row) ==
    row.hash = ChainHash(row.prevHash, PayloadHash(row.payload),
                         row.createdAt * MsPerSecond)

PayloadHashStored(row) ==
    /\ "payloadHash" \in DOMAIN row
    /\ row.payloadHash = PayloadHash(row.payload)

\* C25: for every entry written by createAuditLog the stored hash is
\* H(prevHash, payloadHash, createdAt) with the createdAt stored in the same
\* entry, and payloadHash = H(serialize(payload)) is stored with the entry.
C25_HashOfStoredFields ==
    \A i \in 1..Len(auditLogs) :
        HashOverStoredFields(auditLogs[i]) /\ PayloadHashStored(auditLogs[i])

\* C29: each createAuditLog call sets prevHash to the hash of the entry appended
\* most recently before it, in append order, or to the genesis sentinel when the
\* ledger is empty, for every createdAt a caller passes.
C29_PrevHashIsTail ==
    \A i \in 1..Len(auditLogs) :
        auditLogs[i].prevHash = (IF i = 1 THEN GENESIS ELSE auditLogs[i - 1].hash)

(***************************************************************************)
(* Claims about assessRisk without credential.                             *)
(***************************************************************************)
\* C28: without credential assessRisk returns the mockAssessment output for its
\* subject in every cache state, also when the cache holds a live entry for the
\* subject's fingerprint.
C28_NoCredentialRiskIsMock ==
    \A p \in AiCallers :
        (~apiKey /\ aiRet[p].status = "ok" /\ aiRet[p].op = "assessRisk")
            => aiRet[p].results = <<mockAssessment(aiRet[p].input[1])>>

(***************************************************************************)
(* Claims about the requests of assessBatch.                               *)
(***************************************************************************)
RECURSIVE Flatten(_)
Flatten(lists) ==
    IF Len(lists) = 0 THEN <<>> ELSE Head(lists) \o Flatten(Tail(lists))

\* the records of a chunk without a live cache entry, in the chunk's order
MissesOf(c, clock, batch) ==
    LET Live(f) == /\ generateFingerprint(f) \in DOMAIN c
                   /\ clock - c[generateFingerprint(f)].timestamp < cacheTTL
        Miss(f) == ~Live(f)
    IN  SelectSeq(batch, Miss)

\* the chunks of a call in progress are consecutive pieces of its input, none
\* longer than maxBatchSize, and the request in flight is for at most
\* maxBatchSize records of the chunk being processed
C30_Chunks ==
    \A p \in AiCallers :
        (aiPc[p] = "oracle" /\ aiLoc[p].op = "assessBatch") =>
            /\ Flatten(aiLoc[p].batches) = aiLoc[p].featuresList
            /\ \A k \in 1..Len(aiLoc[p].batches) :
                  Len(aiLoc[p].batches[k]) \in 1..maxBatchSize
            /\ aiLoc[p].b \in 1..Len(aiLoc[p].batches)
            /\ Len(aiLoc[p].uncached) \in 1..maxBatchSize

\* a step of assessBatch: a request for a new chunk carries exactly the chunk's
\* cache misses and is the only request made since the previous chunk's, the
\* chunks passed over had no miss, and a retry repeats the request
C30_Step(p) ==
    LET l == aiLoc[p]
        l2 == aiLoc'[p]
        waiting == aiPc[p] = "oracle" /\ l.op = "assessBatch"
        AllHit(batches, from, to) ==
            \A k \in from..to : MissesOf(cache', now', batches[k]) = <<>>
    IN  /\ (aiPc'[p] = "oracle" /\ l2.op = "assessBatch") =>
              IF waiting /\ l2.b = l.b
              THEN /\ l2.uncached = l.uncached
                   /\ l2.fetches = l.fetches + 1
                   /\ l2.retries = l.retries - 1
              ELSE /\ l2.uncached = MissesOf(cache', now', l2.batches[l2.b])
                   /\ l2.fetches = (IF waiting THEN l.fetches ELSE 0) + 1
                   /\ AllHit(l2.batches, (IF waiting THEN l.b ELSE 0) + 1, l2.b - 1)
        /\ (waiting /\ aiPc'[p] = "idle") =>
              /\ aiRet'[p].status = "ok"
              /\ aiRet'[p].fetches = l.fetches
              /\ AllHit(l.batches, l.b + 1, Len(l.batches))
        /\ (apiKey /\ aiPc[p] = "idle" /\ aiPc'[p] = "idle"
              /\ aiRet'[p] # aiRet[p] /\ aiRet'[p].op = "assessBatch") =>
              /\ aiRet'[p].fetches = 0
              /\ MissesOf(cache', now', aiRet'[p].input) = <<>>

\* C30: with credential assessBatch splits the input into consecutive chunks of
\* at most maxBatchSize records; every oracle request carries at most
\* maxBatchSize records and only cache misses; apart from retries the oracle is
\* called exactly once per chunk with a miss and not at all for a chunk whose
\* records are all cache hits.
C30_OneRequestPerChunk ==
    /\ []C30_Chunks
    /\ [][\A p \in AiCallers : C30_Step(p)]_vars

\* a call over two chunks returned after one request: the first chunk was
\* served from the cache, the second held a miss
C30_Witness ==
    \E p \in AiCallers :
        /\ apiKey
        /\ BatchReturned(p)
        /\ Len(aiRet[p].input) > maxBatchSize
        /\ aiRet[p].fetches = 1
        /\ aiRet[p].hits >= maxBatchSize
        /\ aiRet[p].scored >= 1

(***************************************************************************)
(* Claims about the fingerprint.                                           *)
(***************************************************************************)
SameFourFields(a, b) ==
    /\ a.passportHash = b.passportHash
    /\ a.ageRange = b.ageRange
    /\ a.missingFieldsCount = b.missingFieldsCount
    /\ a.nationalityRiskLevel = b.nationalityRiskLevel

\* the same, an absent nationalityRiskLevel counted as the empty string
LevelOrEmpty(f) == IF f.nationalityRiskLevel = NoLevel THEN "" ELSE f.nationalityRiskLevel

SameFourFieldsUpToAbsent(a, b) ==
    /\ a.passportHash = b.passportHash
    /\ a.ageRange = b.ageRange
    /\ a.missingFieldsCount = b.missingFieldsCount
    /\ LevelOrEmpty(a) = LevelOrEmpty(b)

\* no string field holds the separator of the template string
NoSeparator(f) ==
    /\ ~Includes(f.ageRange, <<":">>)
    /\ f.nationalityRiskLevel # "2:"

\* both records of the call were scored by the oracle and stored
BothStored(p) ==
    /\ BatchReturned(p)
    /\ Len(aiRet[p].input) = 2
    /\ aiRet[p].scored = 2

\* C26: two records equal on (passportHash, ageRange, missingFieldsCount,
\* nationalityRiskLevel) get the same fingerprint whatever their ids, and two
\* records that differ on any of the four get different fingerprints: stored
\* into an empty cache they share one entry in the first case and have one
\* entry each in the second.
C26_FingerprintOfFourFields ==
    \A p \in AiCallers :
        BothStored(p) =>
            LET a == aiRet[p].input[1]
                b == aiRet[p].input[2]
            IN  /\ SameFourFields(a, b) =>
                      /\ generateFingerprint(a) = generateFingerprint(b)
                      /\ Cardinality(DOMAIN cache) = 1
                /\ ~SameFourFields(a, b) =>
                      /\ generateFingerprint(a) # generateFingerprint(b)
                      /\ Cardinality(DOMAIN cache) = 2

\* C26, amended: equal on the four fields, an absent nationalityRiskLevel counted
\* as the empty string, gives the same fingerprint whatever the ids; records
\* without the separator ':' in a string field that differ on one of the four
\* fields get different fingerprints.
C26_FingerprintUpToAbsent ==
    \A p \in AiCallers :
        BothStored(p) =>
            LET a == aiRet[p].input[1]
                b == aiRet[p].input[2]
            IN  /\ SameFourFieldsUpToAbsent(a, b) =>
                      /\ generateFingerprint(a) = generateFingerprint(b)
                      /\ Cardinality(DOMAIN cache) = 1
                /\ (NoSeparator(a) /\ NoSeparator(b) /\ ~SameFourFieldsUpToAbsent(a, b)) =>
                      /\ generateFingerprint(a) # generateFingerprint(b)
                      /\ Cardinality(DOMAIN cache) = 2

\* two records with different ids that differ in the number of missing fields
\* only, each with its own cache entry
C26_Witness ==
    \E p \in AiCallers :
        /\ BothStored(p)
        /\ aiRet[p].input[1].id # aiRet[p].input[2].id
        /\ NoSeparator(aiRet[p].input[1]) /\ NoSeparator(aiRet[p].input[2])
        /\ aiRet[p].input[1].missingFieldsCount # aiRet[p].input[2].missingFieldsCount
        /\ [aiRet[p].input[1] EXCEPT !.id = "t2", !.missingFieldsCount = 2]
              = [aiRet[p].input[2] EXCEPT !.missingFieldsCount = 2]
        /\ Cardinality(DOMAIN cache) = 2

(***************************************************************************)
(* Claims about what the scoring client and the oracle see of a passport.  *)
(***************************************************************************)
\* a traveler with the passport number replaced by its digest and by whether it
\* is present
Redact(row) ==
    [id |-> row.id, name |-> row.name, nationality |-> row.nationality,
     dob |-> row.dob, passportDigest |-> Sha256(row.passportNumber),
     passportPresent |-> row.passportNumber # ""]

\* the feature record as a function of the redacted traveler
RedactedFeature(r, clock) ==
    [id |-> r.id,
     passportHash |-> r.passportDigest,
     ageRange |-> calculateAgeRange(r.dob, clock),
     missingFieldsCount |-> (IF r.passportPresent THEN 0 ELSE 1)
                              + (IF r.name = "" THEN 1 ELSE 0)
                              + (IF r.nationality = "" THEN 1 ELSE 0)
                              + (IF r.dob = "" THEN 1 ELSE 0),
     nationalityRiskLevel |-> NoLevel]

RedactedView(rows, clock) ==
    [i \in 1..Len(rows) |-> RedactedFeature(Redact(rows[i]), clock)]

\* the records the scoring client was handed by the scan
ClientFeatures(p) ==
    IF aiPc[p] = "oracle" THEN aiLoc[p].featuresList ELSE aiRet[p].input

InitialKeys == UNION {DOMAIN d : d \in InitialDisks}

ScanInProgress == scan.pc \in {"assess", "update", "audit"}

\* C27: the feature records, the fingerprints and the oracle requests of a risk
\* scan are functions of the travelers with each passport number replaced by
\* its one-way hash and by whether it is present: the number itself reaches
\* neither the scoring client nor the oracle.
C27_PassportOnlyHashed ==
    ScanInProgress =>
        LET red == RedactedView(scan.travelers, now)
        IN  /\ ClientFeatures(ScanCaller) = red
            /\ \A fp \in DOMAIN cache :
                  \/ fp \in InitialKeys
                  \/ \E i \in 1..Len(red) : fp = generateFingerprint(red[i])
            /\ aiPc[ScanCaller] = "oracle" =>
                  LET request == OracleRequest(ScanCaller)
                  IN  /\ Len(request) >= 1
                      /\ \A k \in 1..Len(request) :
                            \E i \in 1..Len(red) :
                                request[k] = [traveler |-> k, age |-> red[i].ageRange,
                                              missing |-> red[i].missingFieldsCount,
                                              hash |-> Substring8(red[i].passportHash)]

\* a scan of a traveler with and a traveler without passport number, its request
\* to the oracle in flight
C27_Witness ==
    /\ scan.pc = "assess"
    /\ aiPc[ScanCaller] = "oracle"
    /\ Len(OracleRequest(ScanCaller)) = 2
    /\ \E i, j \in 1..Len(scan.travelers) :
          /\ scan.travelers[i].passportNumber = ""
          /\ scan.travelers[j].passportNumber # ""

(***************************************************************************)
(* Claims about a chunk the oracle fails.                                  *)
(***************************************************************************)
\* the results of the call so far, or its returned results
ResultsAfter(p) == IF aiPc'[p] = "idle" THEN aiRet'[p].results ELSE aiLoc'[p].results

\* the oracle's answer to the request in flight is a failure that is no 429 and
\* no network error, or a body that does not parse
ChunkFailedNow(p) ==
    /\ aiPc[p] = "oracle"
    /\ aiLoc[p].op = "assessBatch"
    /\ trace'.last.kind \in {"failure", "unparseable"}
    /\ trace'.attempts = (IF aiLoc[p].retries = DefaultRetries THEN 0 ELSE trace.attempts) + 1
    /\ aiLoc'[p] # aiLoc[p]

C31_Step(p) ==
    ChunkFailedNow(p) =>
        LET l == aiLoc[p]
            n == Len(l.results)
            m == Len(l.uncached)
            after == ResultsAfter(p)
        IN  /\ ~(aiPc'[p] = "oracle" /\ aiLoc'[p].b = l.b)
            /\ Len(after) >= n + m + Len(l.cachedResults)
            /\ SubSeq(after, 1, n) = l.results
            /\ \A i \in 1..m : after[n + i] = mockAssessment(l.uncached[i])
            /\ SubSeq(after, n + m + 1, n + m + Len(l.cachedResults)) = l.cachedResults

\* C31: when the oracle answers a chunk's miss subset with a non-success status
\* other than 429, or with a body that cannot be parsed, the chunk is failed
\* without retry: every subject of the miss subset gets the mockAssessment of
\* its own features, the cache hits of the chunk and the results of the chunks
\* before it stay as they were.
C31_FailedChunkFallsBack == [][\A p \in AiCallers : C31_Step(p)]_vars

\* a call returned whose only request was answered with a failure: one subject
\* of the chunk got the fallback, another its cached score
C31_Witness ==
    \E p \in AiCallers :
        /\ BatchReturned(p)
        /\ trace.last.kind \in {"failure", "unparseable"}
        /\ trace.attempts = 1
        /\ aiRet[p].fetches = 1
        /\ aiRet[p].hits >= 1
        /\ \E i \in 1..Len(aiRet[p].input) :
              /\ aiRet[p].input[i] \in {trace.uncached[k] : k \in 1..Len(trace.uncached)}
              /\ ResultFor(aiRet[p], aiRet[p].input[i].id) = mockAssessment(aiRet[p].input[i])

(***************************************************************************)
(* Claims about verifyAuditChain next to appends.                          *)
(***************************************************************************)
\* C32: verifyAuditChain is read-only: the step that answers leaves every row
\* of the ledger as it was; and run next to appends that never overlapped each
\* other, also while one is in flight, it answers valid:true.
C32_VerifyReadOnlyAndValid ==
    [][verified' # verified =>
          /\ auditLogs' = auditLogs
          /\ nextId' = nextId
          /\ (~overlap /\ verified'.status = "ok") => verified'.valid]_vars

(***************************************************************************)
(* Claims about termination.                                               *)
(***************************************************************************)
\* the request in flight is repeated
RetryStep(p) ==
    /\ aiPc[p] = "oracle" /\ aiPc'[p] = "oracle"
    /\ aiLoc'[p].b = aiLoc[p].b
    /\ aiLoc'[p].fetches # aiLoc[p].fetches

\* the requests made so far for the chunk in flight
RequestsForChunk(p) == DefaultRetries - aiLoc[p].retries + 1

\* C33: assessBatch terminates when every oracle request ends in a response or
\* an error: each retry lowers the retry counter by one and needs a counter
\* above zero, so a chunk sees at most 1 + DefaultRetries requests, also under
\* an oracle that answers 429 or a network error every time, and the call
\* eventually returns.
C33_BatchTerminates ==
    /\ \A p \in AiCallers : (aiPc[p] = "oracle") ~> (aiPc[p] = "idle")
    /\ [][\A p \in AiCallers :
             RetryStep(p) => /\ aiLoc[p].retries >= 1
                             /\ aiLoc'[p].retries = aiLoc[p].retries - 1
                             /\ aiLoc'[p].uncached = aiLoc[p].uncached]_vars
    /\ [](\A p \in AiCallers :
             aiPc[p] = "oracle" => RequestsForChunk(p) \in 1..(DefaultRetries + 1))

\* a call over two chunks returned after the oracle refused every request: each
\* chunk was requested 1 + DefaultRetries times and every record got the fallback
C33_Witness ==
    \E p \in AiCallers :
        /\ BatchReturned(p)
        /\ Len(aiRet[p].input) > maxBatchSize
        /\ aiRet[p].fetches = 2 * (DefaultRetries + 1)
        /\ aiRet[p].fallbacks = Len(aiRet[p].input)
        /\ trace.last.kind \in {"429", "network"}

(***************************************************************************)
(* C34: the cache only ever holds scores the oracle provided: whenever an  *)
(* entry of the cache is written, the request just ended with an array of  *)
(* the oracle, and the entry is no mockAssessment written for content that *)
(* did not parse.                                                          *)
(***************************************************************************)
WrittenEntries == {fp \in DOMAIN cache' : fp \notin DOMAIN cache \/ cache'[fp] # cache[fp]}

C34_CacheHoldsOracleScoresOnly ==
    [][WrittenEntries # {} => trace'.last.kind = "array"]_vars

(***************************************************************************)
(* Claims about whose score an assessment carries.                         *)
(***************************************************************************)
\* r is what a live cache entry for the fingerprint of f gives, under f's id
FromCache(c, clock, f, r) ==
    LET entry == getFromCache(c, clock, generateFingerprint(f))
    IN  /\ entry # NoEntry
        /\ r = Assessment(f.id, entry.riskScore, entry.riskReason)

\* r is the element of the oracle's array at position i, under f's id
FromOracle(response, i, f, r) ==
    /\ response.kind = "array"
    /\ i <= Len(response.elems)
    /\ r = Assessment(f.id, response.elems[i].riskScore,
                      IF response.elems[i].riskReason = "" THEN "Unknown"
                      ELSE response.elems[i].riskReason)

\* a step that adds results to a call of assessBatch: the results of the misses
\* just resolved come first, in the order of the request, the cache hits after
C35_Step(p) ==
    LET l == aiLoc[p]
        waiting == aiPc[p] = "oracle"
        before == IF waiting THEN l.results ELSE <<>>
        resolved == IF waiting /\ ~(aiPc'[p] = "oracle" /\ aiLoc'[p].b = l.b)
                    THEN l.uncached ELSE <<>>
        input == IF waiting THEN l.featuresList
                 ELSE IF aiPc'[p] = "oracle" THEN aiLoc'[p].featuresList
                 ELSE aiRet'[p].input
        batch == IF waiting THEN l.op = "assessBatch"
                 ELSE IF aiPc'[p] = "oracle" THEN aiLoc'[p].op = "assessBatch"
                 ELSE aiRet'[p].op = "assessBatch"
        after == ResultsAfter(p)
        n == Len(before)
        m == Len(resolved)
    IN  (batch /\ (aiLoc'[p] # aiLoc[p] \/ aiRet'[p] # aiRet[p]) /\ Len(after) > n) =>
            /\ Len(after) >= n + m
            /\ \A i \in 1..m :
                  LET f == resolved[i]
                  IN  \/ FromOracle(trace'.last, i, f, after[n + i])
                      \/ after[n + i] = mockAssessment(f)
            /\ \A k \in (n + m + 1)..Len(after) :
                  \E j \in 1..Len(input) :
                      \/ FromCache(cache, now, input[j], after[k])
                      \/ FromCache(cache', now', input[j], after[k])

\* C35: every assessment assessBatch returns carries the id of an input subject
\* and a score that is the cached score for that subject's fingerprint, the
\* oracle's element at the subject's position in the request sent for its miss
\* subset, or the mockAssessment of the subject's own features; a hit on an
\* entry created for another subject is returned under the requesting id.
C35_ScoreOfOwnSubject == [][\A p \in AiCallers : C35_Step(p)]_vars

(***************************************************************************)
(* Claims about the order of the chain.                                    *)
(***************************************************************************)
\* the entry appended last, none on the empty ledger
AppendedLast == IF Len(auditLogs) = 0 THEN NoRow ELSE auditLogs[Len(auditLogs)]

\* C36: chain order equals append order: getLatestAuditLog returns the entry
\* appended last, and verifyAuditChain visits the entries in the order of their
\* appends, also when entries carry the same stored createdAt.
C36_ChainOrderIsAppendOrder ==
    [][/\ \A p \in Procs :
             (pc[p] = "cal_read" /\ pc'[p] = "cal_compute") =>
                 loc'[p].prevLog = AppendedLast
       /\ verified' # verified =>
             LET r == VerifyWalk(auditLogs)
             IN  verified' = [status |-> "ok", valid |-> r.valid,
                              brokenAt |-> r.brokenAt]]_vars

(***************************************************************************)
(* Claims about the order of write-back and audit in a risk scan.          *)
(***************************************************************************)
\* the traveler row of the result carries the result's score and reason
WrittenBack(result) ==
    \E k \in 1..Len(travelers) :
        /\ travelers[k].id = result.travelerId
        /\ travelers[k].riskScore = result.riskScore
        /\ travelers[k].riskReason = result.riskReason

\* every assessment is written back, and every traveler of the scan has one
AllWrittenBack ==
    /\ \A i \in 1..Len(scan.results) : WrittenBack(scan.results[i])
    /\ \A j \in 1..Len(scan.travelers) :
          \E i \in 1..Len(scan.results) :
              scan.results[i].travelerId = scan.travelers[j].id

ScanFailed == scan.pc = "done" /\ scan.status = 500

Fingerprints(records) == {generateFingerprint(records[i]) : i \in 1..Len(records)}

\* the oracle answers the request in flight for a chunk of assessBatch with an
\* array, and the call goes on
ChunkScoredNow(p) ==
    /\ aiPc[p] = "oracle"
    /\ aiLoc[p].op = "assessBatch"
    /\ aiLoc'[p] # aiLoc[p]
    /\ trace'.last.kind = "array"
    /\ trace'.uncached = aiLoc[p].uncached

C38_Step(p) ==
    ChunkScoredNow(p) =>
        LET l == aiLoc[p]
            stored == Fingerprints(l.uncached)
            next == IF aiPc'[p] = "oracle" THEN aiLoc'[p].b ELSE Len(l.batches) + 1
            after == ResultsAfter(p)
        IN  /\ next > l.b
            /\ \A j \in (l.b + 1)..Len(l.batches) :
                  \A i \in 1..Len(l.batches[j]) :
                      LET f == l.batches[j][i]
                          fp == generateFingerprint(f)
                      IN  fp \in stored =>
                             /\ j = next =>
                                   /\ \A k \in 1..Len(aiLoc'[p].uncached) :
                                         aiLoc'[p].uncached[k] # f
                                   /\ \E k \in 1..Len(aiLoc'[p].cachedResults) :
                                         aiLoc'[p].cachedResults[k] =
                                            Assessment(f.id, cache'[fp].riskScore,
                                                       cache'[fp].riskReason)
                             /\ j < next =>
                                   \E k \in (Len(l.results) + 1)..Len(after) :
                                       after[k] = Assessment(f.id, cache'[fp].riskScore,
                                                             cache'[fp].riskReason)

\* C38: within one call of assessBatch the chunks are processed one after
\* another, and what was stored for a chunk is seen by the partition of every
\* later chunk: a record of a later chunk with the fingerprint of a record that a
\* successful oracle call resolved in an earlier chunk is a cache hit and is not
\* sent to the oracle.
C38_LaterChunksSeeStores ==
    /\ [](\A p \in AiCallers :
             (aiPc[p] = "oracle" /\ aiLoc[p].op = "assessBatch") =>
                 \A i \in 1..Len(aiLoc[p].uncached) :
                     getFromCache(cache, now,
                                  generateFingerprint(aiLoc[p].uncached[i])) = NoEntry)
    /\ [][\A p \in AiCallers : C38_Step(p)]_vars

\* a call of two chunks returned after one request: the record of the second
\* chunk was answered with the score the oracle gave in the first
C38_Witness ==
    \E p \in AiCallers :
        /\ BatchReturned(p)
        /\ Len(aiRet[p].input) > maxBatchSize
        /\ aiRet[p].fetches = 1
        /\ aiRet[p].scored = maxBatchSize
        /\ aiRet[p].hits = 1
        /\ trace.last.kind = "array"
        /\ \E i \in 1..Len(trace.uncached) :
              /\ generateFingerprint(trace.uncached[i])
                    = generateFingerprint(aiRet[p].input[Len(aiRet[p].input)])
              /\ i <= Len(trace.last.elems)
              /\ trace.last.elems[i].riskScore = 150
              /\ aiRet[p].results[Len(aiRet[p].results)].riskScore = 150
              /\ aiRet[p].results[Len(aiRet[p].results)].travelerId
                    = aiRet[p].input[Len(aiRet[p].input)].id

(***************************************************************************)
(* Claims about two calls of assessBatch that overlap.                     *)
(***************************************************************************)
ScoredAfter(p) == IF aiPc'[p] = "idle" THEN aiRet'[p].scored ELSE aiLoc'[p].scored

\* callOpenAI returns to p the results for the request in flight
ResolvedByOracle(p) ==
    /\ aiPc[p] = "oracle"
    /\ aiLoc'[p] # aiLoc[p]
    /\ ScoredAfter(p) = aiLoc[p].scored + Len(aiLoc[p].uncached)

BothReturned == \A p \in BatchCallers : aiPc[p] = "idle" /\ aiRet[p].status = "ok"

\* C39: for every interleaving of two concurrent calls of assessBatch on one
\* service, no entry written by one call is lost through the other: every
\* fingerprint a call resolves through the oracle gets its entry, no step drops
\* an entry, and once both calls have returned (every write of the file having
\* succeeded) the file equals the cache in memory.
C39_NoLostCacheEntry ==
    /\ [](BothReturned => disk = cache)
    /\ [][/\ DOMAIN cache \subseteq DOMAIN cache'
          /\ \A p \in BatchCallers :
                ResolvedByOracle(p) =>
                    /\ Fingerprints(aiLoc[p].uncached) \subseteq DOMAIN cache'
                    /\ \A fp \in DOMAIN cache \ Fingerprints(aiLoc[p].uncached) :
                          cache'[fp] = cache[fp]
                    /\ disk' = cache']_vars

\* both calls sent the same single record to the oracle, which only calls that
\* overlap do, and the later answer came while the cache held the earlier one
C39_Witness ==
    /\ BothReturned
    /\ \A p \in BatchCallers :
          /\ aiRet[p].fetches >= 1
          /\ aiRet[p].hits = 0
          /\ aiRet[p].scored = Len(aiRet[p].input)
    /\ \E p, q \in BatchCallers :
          /\ p # q
          /\ Len(aiRet[p].input) = 1
          /\ Len(aiRet[q].input) = 2
          /\ aiRet[q].input[1] = aiRet[p].input[1]
    /\ Cardinality(DOMAIN cache) = 2

====
